---- MODULE Spec2Model ----
(***************************************************************************)
(* A model of orthanc-jxl: the JPEG-XL codec wrapper (jxl_codec.cpp), the  *)
(* DICOM container accessor (dicom_handler.cpp), the transfer-syntax       *)
(* registry (transfer_syntax.h) and the two plugin callbacks (plugin.cpp). *)
(*                                                                         *)
(* Raw pixel buffers are sequences of bytes.  An encoded JPEG-XL byte      *)
(* vector is [strm, runs]: the codestream the bytes come from, and the     *)
(* bytes as a list of runs <<src, len>>, src being the offset in that      *)
(* codestream of the run's first byte, or -1 for a run of zero bytes.      *)
(* Two vectors are equal byte for byte iff their normalised run lists are. *)
(***************************************************************************)
EXTENDS Integers, Sequences, FiniteSets, TLC

\* ---------------------------------------------------------------- bounds
MaxDim == 2
MaxReq == 2
MaxFragLen == 3
JxlHeaderLen == 2
MaxDoublings == 4
MaxEvents == 4
\* The number of requests running side by side.
MaxParallel == 2
\* The largest width and height of an image in the copy loop.
HugeDim == 65535

\* ------------------------------------------------------- program constants
InitialCapacity == 65536
DefaultEffort == 7
MinEffort == 1
MaxEffort == 10

Min(a, b) == IF a < b THEN a ELSE b

\* ----------------------------------------------------------- pixel formats
PixelFormat == {"Gray8", "Gray16", "RGB24", "RGB48"}

EncodeMode == {"Lossless", "ProgressiveLossless", "ProgressiveVarDCT"}

kFormatInfo ==
    [Gray8  |-> [bytesPerPixel |-> 1, numChannels |-> 1, bitsPerSample |-> 8,
                 grayscale |-> TRUE,  jxlType |-> "UINT8"],
     Gray16 |-> [bytesPerPixel |-> 2, numChannels |-> 1, bitsPerSample |-> 16,
                 grayscale |-> TRUE,  jxlType |-> "UINT16"],
     RGB24  |-> [bytesPerPixel |-> 3, numChannels |-> 3, bitsPerSample |-> 8,
                 grayscale |-> FALSE, jxlType |-> "UINT8"],
     RGB48  |-> [bytesPerPixel |-> 6, numChannels |-> 3, bitsPerSample |-> 16,
                 grayscale |-> FALSE, jxlType |-> "UINT16"]]

\* BytesPerPixel with two bytes for every sample.
BytesPerPixelWide(format) == 2 * kFormatInfo[format].numChannels

BytesPerPixel(format) == kFormatInfo[format].bytesPerPixel
NumChannels(format) == kFormatInfo[format].numChannels
BitsPerSample(format) == kFormatInfo[format].bitsPerSample
IsGrayscale(format) == kFormatInfo[format].grayscale
ToJxlDataType(format) == kFormatInfo[format].jxlType

FormatFromImageInfo(info) ==
    IF info.isGrayscale
    THEN (IF info.bitsPerSample <= 8 THEN "Gray8" ELSE "Gray16")
    ELSE (IF info.bitsPerSample <= 8 THEN "RGB24" ELSE "RGB48")

\* The bytes of one sample of a codec data type.
JxlTypeBytes(t) == IF t = "UINT8" THEN 1 ELSE 2

\* ------------------------------------------------------------ encode options
DefaultOptions ==
    [mode |-> "ProgressiveLossless", effort |-> DefaultEffort, centerX |-> -1,
     centerY |-> -1, progressiveDC |-> 0, progressiveAC |-> FALSE, distance |-> 0]

OptionsLossless(effort) ==
    [DefaultOptions EXCEPT !.mode = "Lossless", !.effort = effort]

OptionsProgressiveLossless(effort, centerX, centerY) ==
    [DefaultOptions EXCEPT !.mode = "ProgressiveLossless", !.effort = effort,
                           !.centerX = centerX, !.centerY = centerY]

\* ------------------------------------------------------------- byte vectors
RECURSIVE RunsSize(_)
RunsSize(rs) == IF rs = <<>> THEN 0 ELSE Head(rs)[2] + RunsSize(Tail(rs))

\* Two adjacent runs that are one run: zero bytes after zero bytes, or
\* codestream bytes continued.
Joins(r1, r2) ==
    \/ r1[1] = -1 /\ r2[1] = -1
    \/ r1[1] >= 0 /\ r2[1] = r1[1] + r1[2]

RECURSIVE Normalize(_)
Normalize(rs) ==
    IF rs = <<>> THEN <<>>
    ELSE IF Head(rs)[2] = 0 THEN Normalize(Tail(rs))
    ELSE LET rest == Normalize(Tail(rs))
         IN  IF rest # <<>> /\ Joins(Head(rs), Head(rest))
             THEN <<(<<Head(rs)[1], Head(rs)[2] + Head(rest)[2]>>)>> \o Tail(rest)
             ELSE <<Head(rs)>> \o rest

\* The first n bytes of a run list, and what follows them.
RECURSIVE TakeRuns(_, _)
TakeRuns(rs, n) ==
    IF n <= 0 \/ rs = <<>> THEN <<>>
    ELSE IF Head(rs)[2] <= n
         THEN <<Head(rs)>> \o TakeRuns(Tail(rs), n - Head(rs)[2])
         ELSE <<(<<Head(rs)[1], n>>)>>

RECURSIVE DropRuns(_, _)
DropRuns(rs, n) ==
    IF rs = <<>> THEN <<>>
    ELSE IF n <= 0 THEN rs
    ELSE IF Head(rs)[2] <= n THEN DropRuns(Tail(rs), n - Head(rs)[2])
    ELSE <<(<<(IF Head(rs)[1] = -1 THEN -1 ELSE Head(rs)[1] + n),
              Head(rs)[2] - n>>)>> \o Tail(rs)

\* std::vector<uint8_t>::resize on a run list: new bytes are zero.
ResizeRuns(rs, n) ==
    IF n <= RunsSize(rs) THEN Normalize(TakeRuns(rs, n))
    ELSE Normalize(rs \o <<(<<-1, n - RunsSize(rs)>>)>>)

\* Bytes [src, src+len) of the codestream written at offset off of a buffer.
WriteRuns(rs, off, src, len) ==
    IF len = 0 THEN rs
    ELSE Normalize(TakeRuns(rs, off) \o <<(<<src, len>>)>> \o DropRuns(rs, off + len))

\* std::vector<uint8_t>::resize on a raw byte sequence.
ResizeBytes(bs, n) ==
    [i \in 1..n |-> IF i <= Len(bs) THEN bs[i] ELSE 0]

\* -------------------------------------------------------------------- state
VARIABLES
    entry,  \* the entry point being executed
    pc,     \* its position
    exc,    \* the message of the exception in flight, "" when there is none
    enc,    \* the frame of JxlCodec::Encode
    dec,    \* the frame of JxlCodec::DecodeInfo / JxlCodec::Decode
    test,   \* the frame of RunTest (tests/benchmark.cpp)
    doc,    \* the DcmFileFormat a DicomHandler owns
    tc,     \* the frame of TranscoderCallback
    di,     \* the frame of DecodeImageCallback
    hd,     \* the frame of a caller of DicomHandler's payload operations
    cfg,    \* the frame of PluginConfig::Parse
    par     \* the process-wide state and the requests running side by side

vars == <<entry, pc, exc, enc, dec, test, doc, tc, di, hd, cfg, par>>

\* ------------------------------------------------------ the codec (libjxl)
\* A codestream: what the encoder was told about the image, the samples it
\* reconstructs (px, in the layout of nch channels of bits bits), and the
\* number of bytes it is long.
NoStream ==
    [xsize |-> 0, ysize |-> 0, bits |-> 8, nch |-> 1, lossless |-> TRUE,
     px |-> <<>>, len |-> 0]

NoBytes == [strm |-> NoStream, runs |-> <<>>]

\* The lengths a codestream may have: shorter than the first output buffer,
\* exactly it, and more than twice it.
OutLens == {JxlHeaderLen + 1, InitialCapacity, 2 * InitialCapacity + 1}

\* What a lossy frame may reconstruct from px.
LossyPixels(px) == {px, [i \in 1..Len(px) |-> (px[i] \div 2) * 2]}

\* The frame settings Encode leaves the encoder with (-1: the codec's default).
DefaultFrameSettings ==
    [lossless |-> FALSE, distance |-> 1, modular |-> -1, responsive |-> -1,
     groupOrder |-> -1, centerX |-> -1, centerY |-> -1, centerSet |-> FALSE,
     progressiveDC |-> -1, progressiveAC |-> -1, effort |-> DefaultEffort]

\* The frame settings taking the distance and the lossless flag from the
\* options in every mode.
FrameSettingsByDistance(options) ==
    [DefaultFrameSettings EXCEPT !.lossless = (options.distance = 0),
                                 !.distance = options.distance,
                                 !.effort = options.effort]

\* JxlEncoderFrameSettingsSetOption(JXL_ENC_FRAME_SETTING_EFFORT, effort)
\* returns success: the codec takes the efforts MinEffort..MaxEffort and
\* rejects every other value, leaving the setting as it was.
EffortAccepted(effort) == effort \in MinEffort..MaxEffort

FrameSettings(options) ==
    LET byMode ==
          CASE options.mode = "Lossless" ->
                 [DefaultFrameSettings EXCEPT !.lossless = TRUE, !.distance = 0,
                                              !.modular = 1, !.responsive = 0]
            [] options.mode = "ProgressiveLossless" ->
                 [DefaultFrameSettings EXCEPT !.lossless = TRUE, !.distance = 0,
                                              !.modular = 1, !.responsive = 1,
                                              !.groupOrder = 1,
                                              !.centerX = options.centerX,
                                              !.centerY = options.centerY,
                                              !.centerSet = TRUE]
            [] options.mode = "ProgressiveVarDCT" ->
                 [DefaultFrameSettings EXCEPT !.lossless = (options.distance = 0),
                                              !.distance = options.distance,
                                              !.modular = 0,
                                              !.progressiveDC = options.progressiveDC,
                                              !.progressiveAC =
                                                  IF options.progressiveAC THEN 1 ELSE -1,
                                              !.groupOrder = 1,
                                              !.centerX = options.centerX,
                                              !.centerY = options.centerY,
                                              !.centerSet = TRUE]
            [] OTHER ->
                 [DefaultFrameSettings EXCEPT !.lossless = TRUE, !.distance = 0]
    IN  IF EffortAccepted(options.effort)
        THEN [byMode EXCEPT !.effort = options.effort]
        ELSE byMode

IdleEnc ==
    [pixels |-> <<>>, width |-> 0, height |-> 0, format |-> "Gray8",
     options |-> DefaultOptions, settings |-> DefaultFrameSettings,
     strm |-> NoStream, left |-> 0, result |-> <<>>, nextOut |-> 0,
     availOut |-> 0, out |-> NoBytes, calls |-> 0, doublings |-> 0]

\* A call of JxlCodec::Encode.
EncodeCall(pixelData, width, height, format, options) ==
    [IdleEnc EXCEPT !.pixels = pixelData, !.width = width, !.height = height,
                    !.format = format, !.options = options, !.calls = 1]

EncodeProgressiveLosslessCall(pixelData, width, height, format, effort, centerX, centerY) ==
    EncodeCall(pixelData, width, height, format,
               OptionsProgressiveLossless(effort, centerX, centerY))

\* The checked stages of Encode's configuration, in order, and the message of
\* the JxlCodecError each raises.
EncodeStages ==
    <<"make", "runner", "basic_info", "color", "frame_settings", "add_frame">>

EncodeStageError(stage) ==
    CASE stage = "make" -> "Failed to create JXL encoder"
      [] stage = "runner" -> "Failed to set parallel runner"
      [] stage = "basic_info" -> "Failed to set basic info"
      [] stage = "color" -> "Failed to set color encoding"
      [] stage = "frame_settings" -> "Failed to create frame settings"
      [] stage = "add_frame" -> "Failed to add image frame"

\* The size Encode tells the codec the input buffer has.
InputSize(width, height, format) == width * height * BytesPerPixel(format)

\* Encode, from the creation of the encoder to the first output buffer.  The
\* codec rejects a stage (fail names it, "" for none) or the image is empty;
\* a pixel buffer shorter than the size Encode declares is read past its end:
\* the process dies or the codec encodes whatever bytes follow.
EncodeConfigure ==
    /\ pc = "enc_begin"
    /\ LET inputSize == InputSize(enc.width, enc.height, enc.format)
           settings == FrameSettings(enc.options)
       IN  \E fail \in {""} \cup {EncodeStages[i] : i \in 1..Len(EncodeStages)},
              len \in OutLens, garbage \in {0, 170}, dies \in BOOLEAN :
             LET stage == IF fail = "" /\ (enc.width = 0 \/ enc.height = 0)
                          THEN "basic_info" ELSE fail
                 read == [i \in 1..inputSize |->
                            IF i <= Len(enc.pixels) THEN enc.pixels[i] ELSE garbage]
             IN  IF stage # ""
                 THEN /\ len = InitialCapacity /\ garbage = 0 /\ ~dies
                      /\ pc' = "catch"
                      /\ exc' = EncodeStageError(stage)
                      /\ enc' = enc
                 ELSE IF Len(enc.pixels) < inputSize /\ dies
                 THEN /\ len = InitialCapacity /\ garbage = 0
                      /\ pc' = "crashed"
                      /\ UNCHANGED <<exc, enc>>
                 ELSE /\ ~dies
                      /\ Len(enc.pixels) >= inputSize => garbage = 0
                      /\ \E px \in (IF settings.lossless THEN {read} ELSE LossyPixels(read)) :
                           enc' = [enc EXCEPT
                                     !.settings = settings,
                                     !.strm = [xsize |-> enc.width, ysize |-> enc.height,
                                               bits |-> BitsPerSample(enc.format),
                                               nch |-> IF IsGrayscale(enc.format) THEN 1 ELSE 3,
                                               lossless |-> settings.lossless,
                                               px |-> px, len |-> len],
                                     !.left = len,
                                     !.result = <<(<<-1, InitialCapacity>>)>>,
                                     !.nextOut = 0,
                                     !.availOut = InitialCapacity]
                      /\ pc' = "enc_loop"
                      /\ exc' = exc
    /\ UNCHANGED <<entry, dec, test, doc, tc, di, hd, cfg, par>>

\* What one JxlEncoderProcessOutput call may write into avail bytes when left
\* remain: all it can, or one byte less.
OutputChunks(avail, left) ==
    LET most == Min(avail, left)
    IN  {most} \cup (IF most > 1 THEN {most - 1} ELSE {})

\* GrowOutput with a new buffer in place of the resize: the written bytes
\* are not carried over.
GrowOutputLosing(result) == ResizeRuns(<<>>, RunsSize(result) * 2)

\* GrowOutput leaving the buffer as it is.
GrowOutputSame(result) == result

\* GrowOutput growing by half the size.
GrowOutputByHalf(result) ==
    ResizeRuns(result, RunsSize(result) + RunsSize(result) \div 2)

\* The buffer after NEED_MORE_OUTPUT: twice the size, the written bytes kept.
GrowOutput(result) == ResizeRuns(result, RunsSize(result) * 2)

\* The buffer Encode returns: the written bytes.
TrimOutput(result, availOut) == ResizeRuns(result, RunsSize(result) - availOut)

\* One turn of Encode's output loop (the model follows it through
\* MaxDoublings doublings).
EncodeProcessOutput ==
    /\ pc = "enc_loop"
    /\ enc.doublings < MaxDoublings
    /\ \/ /\ pc' = "catch"
          /\ exc' = "Encoding failed with error"
          /\ enc' = enc
       \/ \E wrote \in OutputChunks(enc.availOut, enc.left) :
            LET result == WriteRuns(enc.result, enc.nextOut, enc.strm.len - enc.left, wrote)
                availOut == enc.availOut - wrote
                left == enc.left - wrote
            IN  IF left = 0
                THEN /\ enc' = [enc EXCEPT
                                  !.left = 0,
                                  !.result = TrimOutput(result, availOut),
                                  !.nextOut = enc.nextOut + wrote,
                                  !.availOut = availOut,
                                  !.out = [strm |-> enc.strm,
                                           runs |-> TrimOutput(result, availOut)]]
                     /\ pc' = "enc_ret"
                     /\ exc' = exc
                ELSE LET bytesWritten == RunsSize(result) - availOut
                         grown == GrowOutput(result)
                     IN  /\ enc' = [enc EXCEPT
                                      !.left = left,
                                      !.result = grown,
                                      !.nextOut = bytesWritten,
                                      !.availOut = RunsSize(grown) - bytesWritten,
                                      !.doublings = @ + 1]
                         /\ pc' = "enc_loop"
                         /\ exc' = exc
    /\ UNCHANGED <<entry, dec, test, doc, tc, di, hd, cfg, par>>

\* ------------------------------------------------------------- the decoder
\* The ImageInfo read from a codestream's header.
InfoOf(strm) ==
    [width |-> strm.xsize, height |-> strm.ysize, bitsPerSample |-> strm.bits,
     numChannels |-> strm.nch, isGrayscale |-> (strm.nch = 1)]

NoInfo ==
    [width |-> 0, height |-> 0, bitsPerSample |-> 0, numChannels |-> 0,
     isGrayscale |-> FALSE]

\* The bytes at the start of data that are the start of its codestream.
ValidPrefix(data) ==
    IF data.runs # <<>> /\ data.runs[1][1] = 0
    THEN Min(data.runs[1][2], data.strm.len)
    ELSE 0

HeaderPresent(data) ==
    data.strm.len > 0 /\ ValidPrefix(data) >= Min(JxlHeaderLen, data.strm.len)

\* The whole codestream is there (bytes after it are not read).
StreamComplete(data) == data.strm.len > 0 /\ ValidPrefix(data) = data.strm.len

\* What the decoder reports where the codestream stops short: other bytes
\* follow, or the input ends.
StreamDefect(data) ==
    IF RunsSize(data.runs) > ValidPrefix(data) THEN "ERROR" ELSE "NEED_MORE_INPUT"

\* The statuses JxlDecoderProcessInput may return: stage is how far the
\* decoder is, bound whether an output buffer is set.
DecoderStatuses(data, stage, bound) ==
    CASE stage = "start" ->
           IF HeaderPresent(data) THEN {"BASIC_INFO"} ELSE {StreamDefect(data)}
      [] stage = "info" /\ ~bound ->
           IF StreamComplete(data) THEN {"NEED_IMAGE_OUT_BUFFER"}
           ELSE {"NEED_IMAGE_OUT_BUFFER", StreamDefect(data)}
      [] stage = "info" /\ bound ->
           IF StreamComplete(data) THEN {"FULL_IMAGE"} ELSE {StreamDefect(data)}
      [] OTHER -> {"SUCCESS"}

\* Sample k of a pixel buffer whose samples are bytes bytes wide.
SampleAt(px, k, bytes) ==
    IF bytes = 1 THEN px[k] ELSE px[2 * k - 1] + 256 * px[2 * k]

\* A sample of bits bits as a sample of the data type.
SampleAs(v, bits, type) ==
    IF bits <= 8 /\ type = "UINT16" THEN v * 257
    ELSE IF bits > 8 /\ type = "UINT8" THEN (v * 255 + 32767) \div 65535
    ELSE v

\* JxlDecoderImageOutBufferSize for a pixel format [num_channels, data_type].
ImageOutBufferSize(strm, pixelFormat) ==
    strm.xsize * strm.ysize * pixelFormat.num_channels * JxlTypeBytes(pixelFormat.data_type)

\* The image of a codestream as the decoder writes it in a pixel format.
DecodedPixels(strm, pixelFormat) ==
    LET tb == JxlTypeBytes(pixelFormat.data_type)
        nc == pixelFormat.num_channels
        inBytes == IF strm.bits <= 8 THEN 1 ELSE 2
    IN  [j \in 1..ImageOutBufferSize(strm, pixelFormat) |->
           LET s == (j - 1) \div tb
               pixel == s \div nc
               channel == s % nc
               k == pixel * strm.nch + (IF strm.nch = 1 THEN 0 ELSE channel) + 1
               v == SampleAs(SampleAt(strm.px, k, inBytes), strm.bits, pixelFormat.data_type)
           IN  IF tb = 1 THEN v
               ELSE IF (j - 1) % tb = 0 THEN v % 256 ELSE v \div 256]

\* The decoder takes a buffer for an image it can write in that format.
SetImageOutBufferOk(strm, pixelFormat, size) ==
    /\ size >= ImageOutBufferSize(strm, pixelFormat)
    /\ pixelFormat.num_channels >= strm.nch

\* The checked calls that set a decoder up, in order, and the message of the
\* JxlCodecError each raises.
DecodeStages == <<"make", "subscribe", "input">>

DecodeStageError(stage) ==
    CASE stage = "make" -> "Failed to create JXL decoder"
      [] stage = "subscribe" -> "Failed to subscribe to decoder events"
      [] stage = "input" -> "Failed to set decoder input"

\* any: the decoder is known by its interface only (it may report every
\* status at every turn); status, turns: the last status of the running loop
\* and the number of its turns; needs, queries, binds: the
\* NEED_IMAGE_OUT_BUFFER statuses seen and the calls of
\* JxlDecoderImageOutBufferSize and JxlDecoderSetImageOutBuffer.
IdleDec ==
    [data |-> NoBytes, auto |-> FALSE, outputFormat |-> "Gray8", info |-> NoInfo,
     stage |-> "start", bound |-> FALSE, result |-> <<>>, width |-> 0, height |-> 0,
     outputBufferSet |-> FALSE, binds |-> 0, out |-> <<>>, calls |-> 0,
     any |-> FALSE, status |-> "", turns |-> 0, needs |-> 0, queries |-> 0]

\* A call of JxlCodec::Decode(data, size, outputFormat).
DecodeCall(data, outputFormat) ==
    [IdleDec EXCEPT !.data = data, !.outputFormat = outputFormat, !.calls = 1]

\* A call of JxlCodec::Decode(data, size), which starts with DecodeInfo.
DecodeAutoCall(data) ==
    [IdleDec EXCEPT !.data = data, !.auto = TRUE, !.calls = 1]

\* The statuses of JxlDecoderStatus the code tells apart, and one of the
\* others (JXL_DEC_FRAME).
JxlDecoderStatus ==
    {"BASIC_INFO", "NEED_IMAGE_OUT_BUFFER", "FULL_IMAGE", "SUCCESS", "ERROR",
     "NEED_MORE_INPUT", "FRAME"}

\* The test of outputBufferSet with the flag ignored.
BindsOutputBufferAlways(outputBufferSet) == TRUE

\* Decode binds an output buffer on NEED_IMAGE_OUT_BUFFER: if (!outputBufferSet).
BindsOutputBuffer(outputBufferSet) == ~outputBufferSet

\* One turn of DecodeInfo's loop (the model follows a loop through MaxEvents
\* turns), and on its return the step of the auto-detecting Decode into
\* Decode proper.
DecodeInfo ==
    /\ pc = "decinfo"
    /\ dec.turns < MaxEvents
    /\ \/ /\ dec.turns = 0
          /\ \E i \in 1..Len(DecodeStages) :
               /\ pc' = "catch"
               /\ exc' = DecodeStageError(DecodeStages[i])
               /\ dec' = dec
       \/ \E status \in (IF dec.any THEN JxlDecoderStatus
                         ELSE DecoderStatuses(dec.data, "start", FALSE)),
             infoOk \in BOOLEAN :
            LET seen == [dec EXCEPT !.status = status, !.turns = @ + 1]
            IN  CASE status = "BASIC_INFO" ->
                       IF infoOk
                       THEN /\ dec' = [seen EXCEPT
                                         !.info = InfoOf(dec.data.strm),
                                         !.outputFormat =
                                             FormatFromImageInfo(InfoOf(dec.data.strm)),
                                         !.status = "", !.turns = 0]
                            /\ pc' = "dec_loop"
                            /\ exc' = exc
                       ELSE /\ dec' = seen
                            /\ pc' = "catch"
                            /\ exc' = "Failed to get basic info"
                  [] status = "ERROR" ->
                       /\ infoOk
                       /\ dec' = seen
                       /\ pc' = "catch"
                       /\ exc' = "Decoder error while reading info"
                  [] status = "NEED_MORE_INPUT" ->
                       /\ infoOk
                       /\ dec' = seen
                       /\ pc' = "catch"
                       /\ exc' = "Incomplete JXL data"
                  [] OTHER ->
                       /\ infoOk
                       /\ dec' = seen
                       /\ pc' = "decinfo"
                       /\ exc' = exc
    /\ UNCHANGED <<entry, enc, test, doc, tc, di, hd, cfg, par>>

\* Decode's switch with no case throwing.
DecodeStatusErrorNone(status) == ""

\* The message of the JxlCodecError Decode throws on a status ("" for the
\* statuses it does not throw on).
DecodeStatusError(status) ==
    CASE status = "ERROR" -> "Decoder error"
      [] status = "NEED_MORE_INPUT" -> "Incomplete JXL data"
      [] OTHER -> ""

\* The pixel format Decode asks the decoder for.
DecodePixelFormat(outputFormat) ==
    [num_channels |-> NumChannels(outputFormat), data_type |-> ToJxlDataType(outputFormat)]

\* One turn of Decode's event loop.
DecodeProcessInput ==
    /\ pc = "dec_loop"
    /\ dec.turns < MaxEvents
    /\ \/ /\ dec.turns = 0
          /\ \E i \in 1..Len(DecodeStages) :
               /\ pc' = "catch"
               /\ exc' = DecodeStageError(DecodeStages[i])
               /\ dec' = dec
       \/ \E status \in (IF dec.any THEN JxlDecoderStatus
                         ELSE DecoderStatuses(dec.data, dec.stage, dec.bound)),
             infoOk \in BOOLEAN, partial \in BOOLEAN :
         LET strm == dec.data.strm
             pixelFormat == DecodePixelFormat(dec.outputFormat)
             seen == [dec EXCEPT !.status = status, !.turns = @ + 1,
                                 !.needs = IF status = "NEED_IMAGE_OUT_BUFFER"
                                           THEN @ + 1 ELSE @]
         IN  /\ status # "BASIC_INFO" => infoOk
             /\ partial => (status \in {"ERROR", "NEED_MORE_INPUT"} /\ dec.bound)
             /\ CASE status = "BASIC_INFO" ->
                    IF infoOk
                    THEN /\ dec' = [seen EXCEPT
                                      !.stage = "info",
                                      !.width = strm.xsize,
                                      !.height = strm.ysize,
                                      !.result = ResizeBytes(dec.result,
                                          strm.xsize * strm.ysize
                                            * BytesPerPixel(dec.outputFormat))]
                         /\ pc' = "dec_loop"
                         /\ exc' = exc
                    ELSE /\ dec' = seen
                         /\ pc' = "catch"
                         /\ exc' = "Failed to get basic info"
               [] status = "NEED_IMAGE_OUT_BUFFER" ->
                    IF ~BindsOutputBuffer(dec.outputBufferSet)
                    THEN /\ dec' = seen
                         /\ pc' = "dec_loop"
                         /\ exc' = exc
                    ELSE IF dec.stage = "start"
                    THEN \* no header read yet: the decoder knows no size
                         /\ dec' = [seen EXCEPT !.queries = @ + 1]
                         /\ pc' = "catch"
                         /\ exc' = "Failed to get output buffer size"
                    ELSE LET requiredSize == ImageOutBufferSize(strm, pixelFormat)
                             result == IF Len(dec.result) < requiredSize
                                       THEN ResizeBytes(dec.result, requiredSize)
                                       ELSE dec.result
                         IN  IF SetImageOutBufferOk(strm, pixelFormat, Len(result))
                             THEN /\ dec' = [seen EXCEPT !.result = result,
                                                         !.bound = TRUE,
                                                         !.outputBufferSet = TRUE,
                                                         !.queries = @ + 1,
                                                         !.binds = @ + 1]
                                  /\ pc' = "dec_loop"
                                  /\ exc' = exc
                             ELSE /\ dec' = [seen EXCEPT !.result = result,
                                                         !.queries = @ + 1,
                                                         !.binds = @ + 1]
                                  /\ pc' = "catch"
                                  /\ exc' = "Failed to set output buffer"
               [] status = "FULL_IMAGE" ->
                    \* the decoder has filled the buffer it was given, if any
                    LET image == DecodedPixels(strm, pixelFormat)
                        filled == IF dec.bound
                                  THEN [i \in 1..Len(dec.result) |->
                                          IF i <= Len(image) THEN image[i]
                                          ELSE dec.result[i]]
                                  ELSE dec.result
                    IN  /\ dec' = [seen EXCEPT !.stage = "image", !.result = filled,
                                               !.out = filled]
                        /\ pc' = "dec_ret"
                        /\ exc' = exc
               [] status = "SUCCESS" ->
                    /\ dec' = [seen EXCEPT !.out = dec.result]
                    /\ pc' = "dec_ret"
                    /\ exc' = exc
               [] status \in {"ERROR", "NEED_MORE_INPUT"}
                    /\ DecodeStatusError(status) # "" ->
                    \* the decoder may have written the start of the image
                    /\ pc' = "catch"
                    /\ exc' = DecodeStatusError(status)
                    /\ dec' = [seen EXCEPT
                                 !.result = IF partial
                                            THEN [@ EXCEPT ![1] =
                                                    DecodedPixels(strm, pixelFormat)[1]]
                                            ELSE @]
               [] OTHER ->
                    /\ pc' = "dec_loop"
                    /\ exc' = exc
                    /\ dec' = seen
    /\ UNCHANGED <<entry, enc, test, doc, tc, di, hd, cfg, par>>

\* ------------------------------------------------- RunTest (the benchmark)
\* A ramp of n bytes.
Ramp(n) == [i \in 1..n |-> (7 * i) % 256]

\* Pixel buffers of n bytes: all zero, all 255, and a ramp that wraps.
PixelBuffers(n) ==
    {[i \in 1..n |-> (p[1] + i * p[2]) % 256] : p \in {<<0, 0>>, <<255, 0>>, <<250, 3>>}}

\* The modes main runs: the two lossless ones, verified, and VarDCT.
TestModes ==
    {[mode |-> "Lossless", distance |-> 0],
     [mode |-> "Lossless", distance |-> 1],
     [mode |-> "ProgressiveLossless", distance |-> 0],
     [mode |-> "ProgressiveLossless", distance |-> 1],
     [mode |-> "ProgressiveVarDCT", distance |-> 0],
     [mode |-> "ProgressiveVarDCT", distance |-> 1]}

IdleTest ==
    [pixels |-> <<>>, width |-> 0, height |-> 0, format |-> "Gray8",
     mode |-> "Lossless", distance |-> 0, effort |-> DefaultEffort,
     verifyRoundtrip |-> FALSE, decoded |-> <<>>, verified |-> FALSE]

TestInput(w, h, f, px, m, e) ==
    [IdleTest EXCEPT !.pixels = px, !.width = w, !.height = h, !.format = f,
                     !.mode = m.mode, !.distance = m.distance, !.effort = e,
                     !.verifyRoundtrip = (m.mode # "ProgressiveVarDCT")]

\* Every size, format, buffer and mode at the default effort, and every
\* effort, with the two next to the codec's range, on one pixel of every
\* format and mode.
TestInputs ==
    UNION {{TestInput(w, h, f, px, m, DefaultEffort)
              : px \in PixelBuffers(InputSize(w, h, f)), m \in TestModes}
             : <<w, h, f>> \in (1..MaxDim) \X (1..MaxDim) \X PixelFormat}
    \cup UNION {{TestInput(1, 1, f, Ramp(InputSize(1, 1, f)), m, e)
                   : m \in TestModes, e \in (MinEffort - 1)..(MaxEffort + 1)}
                  : f \in PixelFormat}

\* RunTest up to its call of Encode.
RunTestEncode ==
    /\ entry = "RunTest" /\ pc = "start"
    /\ enc' = EncodeCall(test.pixels, test.width, test.height, test.format,
                         [DefaultOptions EXCEPT !.mode = test.mode,
                                                !.effort = test.effort,
                                                !.distance = test.distance,
                                                !.centerX = -1, !.centerY = -1])
    /\ pc' = "enc_begin"
    /\ UNCHANGED <<entry, exc, dec, test, doc, tc, di, hd, cfg, par>>

\* RunTest from Encode's return to its call of Decode.
RunTestDecode ==
    /\ entry = "RunTest" /\ pc = "enc_ret"
    /\ dec' = DecodeCall(enc.out, test.format)
    /\ pc' = "dec_loop"
    /\ UNCHANGED <<entry, exc, enc, test, doc, tc, di, hd, cfg, par>>

\* RunTest from Decode's return: the comparison of the round trip.
RunTestVerify ==
    /\ entry = "RunTest" /\ pc = "dec_ret"
    /\ test' = [test EXCEPT
                  !.decoded = dec.out,
                  !.verified = /\ test.verifyRoundtrip
                               /\ Len(dec.out) = Len(test.pixels)
                               /\ dec.out = test.pixels]
    /\ pc' = "done"
    /\ UNCHANGED <<entry, exc, enc, dec, doc, tc, di, hd, cfg, par>>

\* main's catch: the benchmark ends with an error.
RunTestCatch ==
    /\ entry = "RunTest" /\ pc = "catch"
    /\ pc' = "failed"
    /\ UNCHANGED <<entry, exc, enc, dec, test, doc, tc, di, hd, cfg, par>>

\* ------------------------------------------------------- transfer syntaxes
TS_JPEG_XL_LOSSLESS == "1.2.840.10008.1.2.4.110"
TS_JPEG_XL_JPEG_RECOMPRESSION == "1.2.840.10008.1.2.4.111"
TS_JPEG_XL == "1.2.840.10008.1.2.4.112"
TS_LITTLE_ENDIAN_IMPLICIT == "1.2.840.10008.1.2"
TS_LITTLE_ENDIAN_EXPLICIT == "1.2.840.10008.1.2.1"
TS_BIG_ENDIAN_EXPLICIT == "1.2.840.10008.1.2.2"
\* A transfer syntax that is neither the codec's nor uncompressed (JPEG Baseline).
TS_OTHER == "1.2.840.10008.1.2.4.50"

\* IsJxlTransferSyntax with only its first comparison.
IsJxlLosslessOnly(ts) == ts = TS_JPEG_XL_LOSSLESS

IsJxlTransferSyntax(ts) ==
    \/ ts = TS_JPEG_XL_LOSSLESS
    \/ ts = TS_JPEG_XL_JPEG_RECOMPRESSION
    \/ ts = TS_JPEG_XL

IsUncompressedTransferSyntax(ts) ==
    \/ ts = TS_LITTLE_ENDIAN_EXPLICIT
    \/ ts = TS_BIG_ENDIAN_EXPLICIT
    \/ ts = TS_LITTLE_ENDIAN_IMPLICIT

\* ------------------------------------------------- the document (DicomHandler)
\* The pixel element of a dataset: absent, native (bytes) or encapsulated
\* (frags, the items of its pixel sequence, under the transfer syntax xfer).
NoPixel == [rep |-> "none", bytes |-> <<>>, frags |-> <<>>, xfer |-> ""]
NativePixel(bytes) == [NoPixel EXCEPT !.rep = "native", !.bytes = bytes]
EncapsulatedPixel(frags, xfer) ==
    [NoPixel EXCEPT !.rep = "encapsulated", !.frags = frags, !.xfer = xfer]

NoDoc ==
    [hasMeta |-> FALSE, ts |-> "", cols |-> 0, rows |-> 0, bits |-> 0, stored |-> 0,
     high |-> 0, spp |-> 0, pixelRep |-> 0, pixel |-> NoPixel]

\* The result of a call that returns value or throws error.
Returns(value) == [ok |-> TRUE, value |-> value, error |-> ""]
Throws(value, error) == [ok |-> FALSE, value |-> value, error |-> error]

\* An element's value is kept at an even length: a zero byte is added to an
\* odd one (putUint8Array on a DcmOtherByteOtherWord or a DcmPixelItem).
PadRuns(data) ==
    IF RunsSize(data.runs) % 2 = 1
    THEN [data EXCEPT !.runs = Normalize(data.runs \o <<(<<-1, 1>>)>>)]
    ELSE data

PadBytes(bytes) == IF Len(bytes) % 2 = 1 THEN Append(bytes, 0) ELSE bytes

GetImageInfo(d) ==
    [width |-> d.cols, height |-> d.rows, bitsAllocated |-> d.bits,
     bitsStored |-> d.stored, highBit |-> d.high, samplesPerPixel |-> d.spp,
     isSigned |-> (d.pixelRep # 0)]

NoDicomInfo == GetImageInfo(NoDoc)

\* GetTransferSyntax answering the codec's lossless identifier for every
\* document.
GetTransferSyntaxFixed(d) == Returns(TS_JPEG_XL_LOSSLESS)

GetTransferSyntax(d) ==
    IF ~d.hasMeta THEN Throws("", "No meta info in DICOM file")
    ELSE IF d.ts = "" THEN Throws("", "Failed to get transfer syntax UID")
    ELSE Returns(d.ts)

GetPixelData(d) ==
    IF d.pixel.rep = "none" THEN Throws(<<>>, "No pixel data found in DICOM file")
    ELSE IF d.pixel.rep # "native" \/ d.pixel.bytes = <<>>
         THEN Throws(<<>>, "Failed to get pixel data array")
    ELSE Returns(d.pixel.bytes)

\* A uint32_t, as its two 16-bit halves.
UInt32(hi, lo) == [hi |-> hi, lo |-> lo]

\* x + 1 in 32-bit unsigned arithmetic.
UInt32Inc(x) ==
    IF x.lo < 65535 THEN UInt32(x.hi, x.lo + 1)
    ELSE IF x.hi < 65535 THEN UInt32(x.hi + 1, 0)
    ELSE UInt32(0, 0)

\* The item of the pixel sequence GetEncapsulatedData asks for.
ItemIndex(frameIndex) == UInt32Inc(frameIndex)

GetEncapsulatedData(d, frameIndex) ==
    IF d.pixel.rep = "none" THEN Throws(NoBytes, "No pixel data found in DICOM file")
    ELSE IF d.pixel.rep # "encapsulated"
         THEN Throws(NoBytes, "Failed to get encapsulated pixel data")
    ELSE IF ItemIndex(frameIndex).hi > 0 \/ ItemIndex(frameIndex).lo >= Len(d.pixel.frags)
         THEN Throws(NoBytes, "Failed to get pixel item for frame")
    ELSE LET item == d.pixel.frags[ItemIndex(frameIndex).lo + 1]
         IN  IF RunsSize(item.runs) = 0
             THEN Throws(NoBytes, "Failed to get fragment data")
             ELSE Returns(item)

\* DcmItem::insert of a pixel element: refused when the dataset holds one.
DatasetInsert(d, element, insertOk) ==
    IF insertOk /\ d.pixel.rep = "none"
    THEN Returns([d EXCEPT !.pixel = element])
    ELSE Throws(d, "Failed to insert pixel data into dataset")

\* dataset->remove(DCM_PixelData)
DatasetRemove(d) == [d EXCEPT !.pixel = NoPixel]

\* SetJxlPixelData without the offset table item.
SetJxlPixelDataNoTable(d, data, putOk, insertOk) ==
    IF RunsSize(data.runs) = 0 THEN Throws(d, "Invalid JXL data")
    ELSE IF ~putOk THEN Throws(DatasetRemove(d), "Failed to store JXL data in fragment")
    ELSE DatasetInsert(DatasetRemove(d),
                       EncapsulatedPixel(<<PadRuns(data)>>, TS_JPEG_XL_LOSSLESS),
                       insertOk)

\* SetJxlPixelData(data, size); putOk and insertOk are whether the library
\* stores the fragment and inserts the element.
SetJxlPixelData(d, data, putOk, insertOk) ==
    IF RunsSize(data.runs) = 0 THEN Throws(d, "Invalid JXL data")
    ELSE LET removed == DatasetRemove(d)
             offsetTable == NoBytes
             fragment == PadRuns(data)
         IN  IF ~putOk THEN Throws(removed, "Failed to store JXL data in fragment")
             ELSE DatasetInsert(removed,
                                EncapsulatedPixel(<<offsetTable, fragment>>,
                                                  TS_JPEG_XL_LOSSLESS),
                                insertOk)

SetNativePixelData(d, data, putOk, insertOk) ==
    IF Len(data) = 0 THEN Throws(d, "Invalid pixel data")
    ELSE LET removed == DatasetRemove(d)
         IN  IF ~putOk THEN Throws(removed, "Failed to store pixel data")
             ELSE DatasetInsert(removed, NativePixel(PadBytes(data)), insertOk)

\* SetTransferSyntax leaving the meta information as it is.
SetTransferSyntaxSkipped(d, transferSyntaxUid, putOk) == Returns(d)

SetTransferSyntax(d, transferSyntaxUid, putOk) ==
    IF d.hasMeta
    THEN (IF putOk THEN Returns([d EXCEPT !.ts = transferSyntaxUid])
          ELSE Throws(d, "Failed to set transfer syntax UID"))
    ELSE Returns(d)

\* The byte buffer WriteToBuffer returns: the document as written under a
\* transfer syntax and a length encoding.
NoOutput == [xfer |-> "", encType |-> "", doc |-> NoDoc]

\* The writer can emit the pixel element under xfer: a native one under an
\* uncompressed syntax, an encapsulated one under its own syntax.
CanWritePixel(pixel, xfer) ==
    \/ pixel.rep = "none"
    \/ pixel.rep = "native" /\ ~IsJxlTransferSyntax(xfer)
    \/ pixel.rep = "encapsulated" /\ pixel.xfer = xfer

WriteToBuffer(d, transferSyntaxUid, writeOk) ==
    IF ~(IsJxlTransferSyntax(transferSyntaxUid)
         \/ transferSyntaxUid \in {TS_LITTLE_ENDIAN_EXPLICIT, TS_BIG_ENDIAN_EXPLICIT,
                                   TS_LITTLE_ENDIAN_IMPLICIT})
    THEN Throws(NoOutput, "Unsupported transfer syntax")
    ELSE IF ~writeOk \/ ~CanWritePixel(d.pixel, transferSyntaxUid)
    THEN Throws(NoOutput, "Failed to write DICOM")
    ELSE Returns([xfer |-> transferSyntaxUid,
                  encType |-> IF transferSyntaxUid = TS_LITTLE_ENDIAN_IMPLICIT
                              THEN "EET_UndefinedLength" ELSE "EET_ExplicitLength",
                  doc |-> d])

\* The input of a callback: bytes that are null or empty ("null"), bytes in
\* which the parser finds no dataset ("nodataset"), or bytes holding doc,
\* read with a warning ("warn") or without ("ok").
Container(kind, d) == [kind |-> kind, doc |-> d]

\* DicomHandler::DicomHandler(data, size)
ParseContainer(c) ==
    IF c.kind = "null" THEN Throws(NoDoc, "Invalid input DICOM data")
    ELSE IF c.kind = "nodataset" THEN Throws(NoDoc, "No dataset in DICOM file")
    ELSE Returns(c.doc)

\* ------------------------------------------------------ TranscoderCallback
\* The effort TranscoderCallback encodes with.
TranscodeEffort == 7

\* The scan comparing with IsJxlTransferSyntax in place of strcmp.
JxlRequestedAny(allowedSyntaxes) ==
    \E i \in 1..Len(allowedSyntaxes) : IsJxlTransferSyntax(allowedSyntaxes[i])

\* The scan of the allowed syntaxes: whether the codec is requested ...
JxlRequested(allowedSyntaxes) ==
    \E i \in 1..Len(allowedSyntaxes) : allowedSyntaxes[i] = TS_JPEG_XL_LOSSLESS

\* The scan without its !uncompressedSyntax test: the last uncompressed
\* syntax is kept.
UncompressedSyntaxLast(allowedSyntaxes) ==
    LET hits == {i \in 1..Len(allowedSyntaxes) :
                   IsUncompressedTransferSyntax(allowedSyntaxes[i])}
    IN  IF hits = {} THEN ""
        ELSE allowedSyntaxes[CHOOSE i \in hits : \A j \in hits : i >= j]

\* The scan answering with Explicit VR Little Endian whatever uncompressed
\* syntax it found.
UncompressedSyntaxExplicit(allowedSyntaxes) ==
    IF \E i \in 1..Len(allowedSyntaxes) : IsUncompressedTransferSyntax(allowedSyntaxes[i])
    THEN TS_LITTLE_ENDIAN_EXPLICIT
    ELSE ""

\* ... and the first uncompressed syntax ("" for the null pointer).
UncompressedSyntax(allowedSyntaxes) ==
    LET hits == {i \in 1..Len(allowedSyntaxes) :
                   IsUncompressedTransferSyntax(allowedSyntaxes[i])}
    IN  IF hits = {} THEN ""
        ELSE allowedSyntaxes[CHOOSE i \in hits : \A j \in hits : i <= j]

\* The derivation without its samplesPerPixel test.
TranscodeFormatGrayOnly(info) ==
    IF info.bitsAllocated <= 8 THEN "Gray8" ELSE "Gray16"

\* The pixel format TranscoderCallback derives from the image information.
TranscodeFormat(info) ==
    IF info.samplesPerPixel = 1
    THEN (IF info.bitsAllocated <= 8 THEN "Gray8" ELSE "Gray16")
    ELSE (IF info.bitsAllocated <= 8 THEN "RGB24" ELSE "RGB48")

\* The FROM-JXL test without its uncompressedSyntax operand.
FromJxlCaseAlways(currentTs, uncompressedSyntax) == IsJxlTransferSyntax(currentTs)

\* The two directions, as TranscoderCallback tests them.
FromJxlCase(currentTs, uncompressedSyntax) ==
    IsJxlTransferSyntax(currentTs) /\ uncompressedSyntax # ""

ToJxlCase(currentTs, jxlRequested) ==
    jxlRequested /\ ~IsJxlTransferSyntax(currentTs)

IdleTc ==
    [allowedSyntaxes |-> <<>>, input |-> Container("null", NoDoc),
     jxlRequested |-> FALSE, uncompressedSyntax |-> "", parsed |-> FALSE,
     parsedDoc |-> NoDoc, currentTs |-> "", dir |-> "", info |-> NoDicomInfo,
     pixels |-> <<>>, jxlData |-> NoBytes, output |-> NoOutput,
     allocated |-> FALSE, transcoded |-> NoOutput, ret |-> "", steps |-> <<>>]

\* The loop over the allowed syntaxes, before the try block.
TranscodeScan ==
    /\ entry = "Transcode" /\ pc = "start"
    /\ tc' = [tc EXCEPT !.jxlRequested = JxlRequested(tc.allowedSyntaxes),
                        !.uncompressedSyntax = UncompressedSyntax(tc.allowedSyntaxes)]
    /\ pc' = "tc_parse"
    /\ UNCHANGED <<entry, exc, enc, dec, test, doc, di, hd, cfg, par>>

\* DicomHandler handler(buffer, size)
TranscodeParse ==
    /\ entry = "Transcode" /\ pc = "tc_parse"
    /\ LET r == ParseContainer(tc.input)
       IN  IF r.ok
           THEN /\ doc' = r.value
                /\ tc' = [tc EXCEPT !.parsed = TRUE, !.parsedDoc = r.value,
                                    !.steps = Append(@, "parse")]
                /\ pc' = "tc_dispatch"
                /\ exc' = exc
           ELSE /\ pc' = "catch"
                /\ exc' = r.error
                /\ UNCHANGED <<doc, tc>>
    /\ UNCHANGED <<entry, enc, dec, test, di, hd, cfg, par>>

\* GetTransferSyntax and the choice of the direction.
TranscodeDispatch ==
    /\ entry = "Transcode" /\ pc = "tc_dispatch"
    /\ LET r == GetTransferSyntax(doc)
       IN  IF ~r.ok
           THEN /\ pc' = "catch"
                /\ exc' = r.error
                /\ tc' = tc
           ELSE /\ exc' = exc
                /\ IF FromJxlCase(r.value, tc.uncompressedSyntax)
                   THEN /\ tc' = [tc EXCEPT !.currentTs = r.value, !.dir = "FROM-JXL",
                                            !.steps = Append(@, "identifier")]
                        /\ pc' = "tc_from"
                   ELSE IF ToJxlCase(r.value, tc.jxlRequested)
                   THEN /\ tc' = [tc EXCEPT !.currentTs = r.value, !.dir = "TO-JXL",
                                            !.steps = Append(@, "identifier")]
                        /\ pc' = "tc_to"
                   ELSE /\ tc' = [tc EXCEPT !.currentTs = r.value,
                                            !.ret = "NotImplemented",
                                            !.steps = Append(@, "identifier")]
                        /\ pc' = "done"
    /\ UNCHANGED <<entry, enc, dec, test, doc, di, hd, cfg, par>>

\* FROM-JXL: the fragment of frame 0 is extracted and handed to Decode.
TranscodeFromExtract ==
    /\ entry = "Transcode" /\ pc = "tc_from"
    /\ LET r == GetEncapsulatedData(doc, UInt32(0, 0))
       IN  IF r.ok
           THEN /\ tc' = [tc EXCEPT !.jxlData = r.value, !.steps = Append(@, "extract")]
                /\ dec' = DecodeAutoCall(r.value)
                /\ pc' = "decinfo"
                /\ exc' = exc
           ELSE /\ pc' = "catch"
                /\ exc' = r.error
                /\ UNCHANGED <<tc, dec>>
    /\ UNCHANGED <<entry, enc, test, doc, di, hd, cfg, par>>

\* FROM-JXL, from Decode's return: the native payload, the identifier, the
\* serialisation.
TranscodeFromStore ==
    /\ entry = "Transcode" /\ pc = "dec_ret"
    /\ \E putOk \in BOOLEAN, insertOk \in BOOLEAN, tsOk \in BOOLEAN, writeOk \in BOOLEAN :
         LET r1 == SetNativePixelData(doc, dec.out, putOk, insertOk)
             r2 == SetTransferSyntax(r1.value, tc.uncompressedSyntax, tsOk)
             r3 == WriteToBuffer(r2.value, tc.uncompressedSyntax, writeOk)
             done == [tc EXCEPT !.pixels = dec.out, !.info = tc.info,
                                !.steps = @ \o <<"codec">>]
         IN  IF ~r1.ok
             THEN /\ doc' = r1.value
                  /\ tc' = done
                  /\ pc' = "catch" /\ exc' = r1.error
             ELSE IF ~r2.ok
             THEN /\ doc' = r2.value
                  /\ tc' = [done EXCEPT !.steps = @ \o <<"payload">>]
                  /\ pc' = "catch" /\ exc' = r2.error
             ELSE IF ~r3.ok
             THEN /\ doc' = r2.value
                  /\ tc' = [done EXCEPT !.steps = @ \o <<"payload", "set-identifier">>]
                  /\ pc' = "catch" /\ exc' = r3.error
             ELSE /\ doc' = r2.value
                  /\ tc' = [done EXCEPT !.output = r3.value,
                                        !.steps = @ \o <<"payload", "set-identifier",
                                                         "serialize">>]
                  /\ pc' = "tc_alloc" /\ exc' = exc
    /\ UNCHANGED <<entry, enc, dec, test, di, hd, cfg, par>>

\* TO-JXL: the image information and the native pixels are read, the format
\* is derived and Encode is called.
TranscodeToRead ==
    /\ entry = "Transcode" /\ pc = "tc_to"
    /\ LET info == GetImageInfo(doc)
           r == GetPixelData(doc)
       IN  IF r.ok
           THEN /\ tc' = [tc EXCEPT !.info = info, !.pixels = r.value,
                                    !.steps = Append(@, "extract")]
                /\ enc' = EncodeProgressiveLosslessCall(
                              r.value, info.width, info.height, TranscodeFormat(info),
                              TranscodeEffort, info.width \div 2, info.height \div 2)
                /\ pc' = "enc_begin"
                /\ exc' = exc
           ELSE /\ tc' = [tc EXCEPT !.info = info]
                /\ pc' = "catch"
                /\ exc' = r.error
                /\ enc' = enc
    /\ UNCHANGED <<entry, dec, test, doc, di, hd, cfg, par>>

\* TO-JXL, from Encode's return: the encapsulated payload, the identifier,
\* the serialisation.
TranscodeToStore ==
    /\ entry = "Transcode" /\ pc = "enc_ret"
    /\ \E putOk \in BOOLEAN, insertOk \in BOOLEAN, tsOk \in BOOLEAN, writeOk \in BOOLEAN :
         LET r1 == SetJxlPixelData(doc, enc.out, putOk, insertOk)
             r2 == SetTransferSyntax(r1.value, TS_JPEG_XL_LOSSLESS, tsOk)
             r3 == WriteToBuffer(r2.value, TS_JPEG_XL_LOSSLESS, writeOk)
             done == [tc EXCEPT !.jxlData = enc.out, !.steps = @ \o <<"codec">>]
         IN  IF ~r1.ok
             THEN /\ doc' = r1.value
                  /\ tc' = done
                  /\ pc' = "catch" /\ exc' = r1.error
             ELSE IF ~r2.ok
             THEN /\ doc' = r2.value
                  /\ tc' = [done EXCEPT !.steps = @ \o <<"payload">>]
                  /\ pc' = "catch" /\ exc' = r2.error
             ELSE IF ~r3.ok
             THEN /\ doc' = r2.value
                  /\ tc' = [done EXCEPT !.steps = @ \o <<"payload", "set-identifier">>]
                  /\ pc' = "catch" /\ exc' = r3.error
             ELSE /\ doc' = r2.value
                  /\ tc' = [done EXCEPT !.output = r3.value,
                                        !.steps = @ \o <<"payload", "set-identifier",
                                                         "serialize">>]
                  /\ pc' = "tc_alloc" /\ exc' = exc
    /\ UNCHANGED <<entry, enc, dec, test, di, hd, cfg, par>>

\* OrthancPluginCreateMemoryBuffer and the copy of the output into it.
TranscodeOutput ==
    /\ entry = "Transcode" /\ pc = "tc_alloc"
    /\ \E allocOk \in BOOLEAN :
         IF allocOk
         THEN tc' = [tc EXCEPT !.allocated = TRUE, !.transcoded = tc.output,
                               !.ret = "Success", !.steps = Append(@, "output")]
         ELSE tc' = [tc EXCEPT !.ret = "Plugin"]
    /\ pc' = "done"
    /\ UNCHANGED <<entry, exc, enc, dec, test, doc, di, hd, cfg, par>>

\* A catch block that reports the call as done.
TranscodeCatchSuccess ==
    /\ entry = "Transcode" /\ pc = "catch"
    /\ tc' = [tc EXCEPT !.ret = "Success"]
    /\ pc' = "done"
    /\ UNCHANGED <<entry, exc, enc, dec, test, doc, di, hd, cfg, par>>

\* catch (const std::exception&)
TranscodeCatch ==
    /\ entry = "Transcode" /\ pc = "catch"
    /\ tc' = [tc EXCEPT !.ret = "Plugin"]
    /\ pc' = "done"
    /\ UNCHANGED <<entry, exc, enc, dec, test, doc, di, hd, cfg, par>>

\* ------------------------------------------------------ DecodeImageCallback
\* An OrthancPluginImage: its format and size, its pitch and its buffer; a
\* byte of the buffer nothing has written is -1.
NoImage ==
    [created |-> FALSE, pixelFormat |-> "", width |-> 0, height |-> 0, pitch |-> 0,
     buffer |-> <<>>]

\* The Orthanc pixel format of a decoded image.
OrthancPixelFormat(format, isSigned) ==
    CASE format = "Gray8" -> "Grayscale8"
      [] format = "Gray16" -> IF isSigned THEN "SignedGrayscale16" ELSE "Grayscale16"
      [] format = "RGB24" -> "RGB24"
      [] OTHER -> "RGB48"

\* OrthancPluginCreateImage: rows of pitch bytes, pad of them past the pixels.
CreateImage(pixelFormat, width, height, bytesPerPixel, pad) ==
    [created |-> TRUE, pixelFormat |-> pixelFormat, width |-> width, height |-> height,
     pitch |-> width * bytesPerPixel + pad,
     buffer |-> [i \in 1..(height * (width * bytesPerPixel + pad)) |-> -1]]

\* The loop of memcpy calls: row y of pixels to offset y * pitch of buffer.
CopyRows(buffer, pixels, height, rowSize, pitch) ==
    [i \in 1..Len(buffer) |->
       LET y == (i - 1) \div pitch
           x == (i - 1) % pitch
       IN  IF y < height /\ x < rowSize /\ y * rowSize + x + 1 <= Len(pixels)
           THEN pixels[y * rowSize + x + 1]
           ELSE buffer[i]]

IdleDi ==
    [input |-> Container("null", NoDoc), frameIndex |-> UInt32(0, 0),
     dicomInfo |-> NoDicomInfo, extracted |-> FALSE, jxlData |-> NoBytes,
     pixels |-> <<>>, jxlInfo |-> NoInfo, format |-> "Gray8", image |-> NoImage,
     target |-> NoImage, ret |-> "", y |-> 0, dst |-> <<>>, src |-> <<>>]

\* DecodeImageCallback up to its call of Decode.
DecodeImageEnter ==
    /\ entry = "DecodeImage" /\ pc = "start"
    /\ LET h == ParseContainer(di.input)
           ts == GetTransferSyntax(h.value)
           frag == GetEncapsulatedData(h.value, di.frameIndex)
       IN  IF ~h.ok
           THEN /\ pc' = "catch" /\ exc' = h.error
                /\ UNCHANGED <<doc, di, dec>>
           ELSE /\ doc' = h.value
                /\ IF ~ts.ok
                   THEN /\ pc' = "catch" /\ exc' = ts.error
                        /\ UNCHANGED <<di, dec>>
                   ELSE IF ~IsJxlTransferSyntax(ts.value)
                   THEN /\ di' = [di EXCEPT !.ret = "NotImplemented"]
                        /\ pc' = "done"
                        /\ UNCHANGED <<exc, dec>>
                   ELSE IF ~frag.ok
                   THEN /\ di' = [di EXCEPT !.dicomInfo = GetImageInfo(h.value)]
                        /\ pc' = "catch" /\ exc' = frag.error
                        /\ dec' = dec
                   ELSE /\ di' = [di EXCEPT !.dicomInfo = GetImageInfo(h.value),
                                            !.extracted = TRUE,
                                            !.jxlData = frag.value]
                        /\ dec' = DecodeAutoCall(frag.value)
                        /\ pc' = "decinfo"
                        /\ exc' = exc
    /\ UNCHANGED <<entry, enc, test, tc, hd, cfg, par>>

\* DecodeImageCallback from Decode's return: the image is created, filled
\* row by row and handed to the caller.
DecodeImageFinish ==
    /\ entry = "DecodeImage" /\ pc = "dec_ret"
    /\ LET format == FormatFromImageInfo(dec.info)
           pixelFormat == OrthancPixelFormat(format, di.dicomInfo.isSigned)
           bytesPerPixel == BytesPerPixel(format)
           rowSize == dec.info.width * bytesPerPixel
           got == [di EXCEPT !.pixels = dec.out, !.jxlInfo = dec.info, !.format = format]
       IN  \E createOk \in BOOLEAN, bufferOk \in BOOLEAN, pad \in {0, 1} :
             LET image == CreateImage(pixelFormat, dec.info.width, dec.info.height,
                                      bytesPerPixel, pad)
             IN  IF ~createOk
                 THEN /\ bufferOk /\ pad = 0
                      /\ di' = [got EXCEPT !.ret = "Plugin"]
                 ELSE IF ~bufferOk \/ image.pitch = 0
                 THEN /\ pad = 0
                      /\ di' = [got EXCEPT !.ret = "Plugin"]
                 ELSE di' = [got EXCEPT
                               !.image = [image EXCEPT
                                            !.buffer = CopyRows(image.buffer, dec.out,
                                                                dec.info.height, rowSize,
                                                                image.pitch)],
                               !.target = [image EXCEPT
                                            !.buffer = CopyRows(image.buffer, dec.out,
                                                                dec.info.height, rowSize,
                                                                image.pitch)],
                               !.ret = "Success"]
    /\ pc' = "done"
    /\ UNCHANGED <<entry, exc, enc, dec, test, doc, tc, hd, cfg, par>>

\* catch (const std::exception&)
DecodeImageCatch ==
    /\ entry = "DecodeImage" /\ pc = "catch"
    /\ di' = [di EXCEPT !.ret = "Plugin"]
    /\ pc' = "done"
    /\ UNCHANGED <<entry, exc, enc, dec, test, doc, tc, hd, cfg, par>>

\* y * stride as the copy loop computes it, both operands being uint32_t: the
\* low 32 bits of the product as two 16-bit halves, and in carry the bits of
\* the product above them, which the 32-bit multiplication drops.
RowOffset(y, stride) ==
    LET Mul16(x, v) ==
            LET p0 == (x % 256) * v
                p1 == (x \div 256) * v
                low == (p0 % 65536) + ((p1 % 256) * 256)
            IN  [hi |-> (p0 \div 65536) + (p1 \div 256) + (low \div 65536),
                 lo |-> low % 65536]
        a == Mul16(y, stride % 65536)
        b == Mul16(y, stride \div 65536)
    IN  [hi |-> (a.hi + b.lo) % 65536, lo |-> a.lo,
         carry |-> b.hi + ((a.hi + b.lo) \div 65536)]

\* One turn of the copy loop of DecodeImageCallback, for row di.y:
\* memcpy(buffer + y * pitch, pixels.data() + y * rowSize, rowSize).
DecodeImageCopyRow ==
    /\ entry = "CopyRows" /\ pc = "start"
    /\ LET bytesPerPixel == BytesPerPixel(di.format)
           rowSize == di.jxlInfo.width * bytesPerPixel
       IN  di' = [di EXCEPT !.dst = RowOffset(di.y, di.image.pitch),
                            !.src = RowOffset(di.y, rowSize)]
    /\ pc' = "copied"
    /\ UNCHANGED <<entry, exc, enc, dec, test, doc, tc, hd, cfg, par>>

\* ------------------------------------------- a caller of the payload operations
IdleHd ==
    [data |-> NoBytes, before |-> NoDoc, stored |-> FALSE, fetched |-> FALSE,
     fragment |-> NoBytes, id |-> "", tsSet |-> FALSE, ts |-> ""]

\* handler.SetJxlPixelData(data)
HandlerSetJxlPixelData ==
    /\ entry = "Handler" /\ pc = "start"
    /\ \E putOk \in BOOLEAN, insertOk \in BOOLEAN :
         LET r == SetJxlPixelData(doc, hd.data, putOk, insertOk)
         IN  /\ doc' = r.value
             /\ hd' = [hd EXCEPT !.stored = r.ok]
             /\ pc' = IF r.ok THEN "hd_get" ELSE "catch"
             /\ exc' = r.error
    /\ UNCHANGED <<entry, enc, dec, test, tc, di, cfg, par>>

\* handler.GetEncapsulatedData(0)
HandlerGetEncapsulatedData ==
    /\ entry = "Handler" /\ pc = "hd_get"
    /\ LET r == GetEncapsulatedData(doc, UInt32(0, 0))
       IN  /\ hd' = [hd EXCEPT !.fetched = r.ok, !.fragment = r.value]
           /\ pc' = IF r.ok THEN "done" ELSE "catch"
           /\ exc' = r.error
    /\ UNCHANGED <<entry, enc, dec, test, doc, tc, di, cfg, par>>

\* The caller's handler of DicomHandlerError.
HandlerCatch ==
    /\ entry = "Handler" /\ pc = "catch"
    /\ pc' = "failed"
    /\ UNCHANGED <<entry, exc, enc, dec, test, doc, tc, di, hd, cfg, par>>

\* ---------------------------------------------- configuration (config.cpp)
\* A JSON value as the parser holds it: its type t and, by type, the string s,
\* the number n or the boolean b.  "absent" stands for a key the object lacks.
Json(t, s, n, b) == [t |-> t, s |-> s, n |-> n, b |-> b]

\* value.get<std::string>(): only a string converts.
GetString(v) == IF v.t = "string" THEN Returns(v.s) ELSE Throws("", "type_error")

\* value.get<int>() and value.get<float>(): a number converts, and so does a
\* boolean (to 0 or 1); every other type raises type_error.
GetArithmetic(v) ==
    CASE v.t = "number" -> Returns(v.n)
      [] v.t = "boolean" -> Returns(IF v.b THEN 1 ELSE 0)
      [] OTHER -> Throws(0, "type_error")

\* value.get<bool>(): only a boolean converts.
GetBool(v) == IF v.t = "boolean" THEN Returns(v.b) ELSE Throws(FALSE, "type_error")

Default ==
    [encodeOptions |-> OptionsProgressiveLossless(7, -1, -1),
     centerFirstOrdering |-> TRUE]

\* jsonConfig: a null pointer, text that is no JSON, a document without the
\* "OrthancJxl" key, one whose "OrthancJxl" value is no object (kind "scalar"),
\* or one whose section holds the six values of section.
Parse(jsonConfig) ==
    IF jsonConfig.kind \in {"null", "unparsable", "nosection", "scalar"}
    THEN Default
    ELSE LET section == jsonConfig.section
             has(key) == section[key].t # "absent"
             mode == GetString(section.Mode)
             effort == GetArithmetic(section.Effort)
             distance == GetArithmetic(section.Distance)
             center == GetBool(section.CenterFirstOrdering)
             dc == GetArithmetic(section.ProgressiveDC)
             ac == GetBool(section.ProgressiveAC)
             thrown == \/ has("Mode") /\ ~mode.ok
                       \/ has("Effort") /\ ~effort.ok
                       \/ has("Distance") /\ ~distance.ok
                       \/ has("CenterFirstOrdering") /\ ~center.ok
                       \/ has("ProgressiveDC") /\ ~dc.ok
                       \/ has("ProgressiveAC") /\ ~ac.ok
             config == Default
         IN  IF thrown THEN Default
             ELSE [encodeOptions |->
                     [config.encodeOptions EXCEPT
                        !.mode = IF has("Mode") /\ mode.value \in EncodeMode
                                 THEN mode.value ELSE @,
                        !.effort = IF has("Effort") /\ effort.value >= MinEffort
                                      /\ effort.value <= MaxEffort
                                   THEN effort.value ELSE @,
                        !.distance = IF has("Distance") /\ distance.value >= 0
                                     THEN distance.value ELSE @,
                        !.progressiveDC = IF has("ProgressiveDC") /\ dc.value >= 0
                                             /\ dc.value <= 2
                                          THEN dc.value ELSE @,
                        !.progressiveAC = IF has("ProgressiveAC") THEN ac.value ELSE @],
                   centerFirstOrdering |->
                     IF has("CenterFirstOrdering") THEN center.value
                     ELSE config.centerFirstOrdering]

\* The derivation applied as soon as either configured coordinate is unset.
GetEncodeOptionsEither(config, imageWidth, imageHeight) ==
    LET opts == config.encodeOptions
    IN  IF config.centerFirstOrdering /\ (opts.centerX < 0 \/ opts.centerY < 0)
        THEN [opts EXCEPT !.centerX = imageWidth \div 2,
                          !.centerY = imageHeight \div 2]
        ELSE opts

\* PluginConfig::GetEncodeOptions(imageWidth, imageHeight) const
GetEncodeOptions(config, imageWidth, imageHeight) ==
    LET opts == config.encodeOptions
    IN  IF config.centerFirstOrdering /\ opts.centerX < 0 /\ opts.centerY < 0
        THEN [opts EXCEPT !.centerX = imageWidth \div 2,
                          !.centerY = imageHeight \div 2]
        ELSE opts

IdleCfg ==
    [jsonConfig |-> [kind |-> "null"], config |-> Default, returned |-> FALSE,
     imageWidth |-> 0, imageHeight |-> 0, opts |-> Default.encodeOptions]

\* PluginConfig::Parse(jsonConfig)
ConfigParse ==
    /\ entry = "Parse" /\ pc = "start"
    /\ cfg' = [cfg EXCEPT !.config = Parse(cfg.jsonConfig), !.returned = TRUE]
    /\ pc' = "done"
    /\ UNCHANGED <<entry, exc, enc, dec, test, doc, tc, di, hd, par>>

\* config.GetEncodeOptions(imageWidth, imageHeight) called by a user of the
\* configuration
ConfigGetEncodeOptions ==
    /\ entry = "GetEncodeOptions" /\ pc = "start"
    /\ cfg' = [cfg EXCEPT
                 !.opts = GetEncodeOptions(cfg.config, cfg.imageWidth, cfg.imageHeight),
                 !.returned = TRUE]
    /\ pc' = "done"
    /\ UNCHANGED <<entry, exc, enc, dec, test, doc, tc, di, hd, par>>

\* ------------------------------------------------------ concurrent requests
\* The process-wide state a request touches: DCMTK's dcmIgnoreParsingErrors
\* flag and the plugin's context_ handle.  reqs holds the requests in flight:
\* the callback, its input, its place in the DicomHandler constructor and in
\* the callback, the document it read and what it goes on to do.
IdlePar == [dcmIgnoreParsingErrors |-> FALSE, context_ |-> "host", reqs |-> <<>>]

\* The constructor inverting the flag it finds.
ToggleIgnoreParsingErrors(flag) == ~flag

\* dcmIgnoreParsingErrors.set(OFTrue)
SetIgnoreParsingErrors(flag) == TRUE

\* fileFormat_->read(...) under the flag as it stands: a container with a
\* malformed element is read whole in lenient mode and up to that element
\* (its pixel element lost) otherwise; the status of the read is not an error
\* of the constructor, only a missing dataset is.
ReadContainer(c, ignoreParsingErrors) ==
    IF c.kind = "nodataset" THEN Throws(NoDoc, "No dataset in DICOM file")
    ELSE IF c.kind = "warn" /\ ~ignoreParsingErrors
    THEN Returns([c.doc EXCEPT !.pixel = NoPixel])
    ELSE Returns(c.doc)

\* What a callback does with the document it has read, all of it on objects
\* the call owns: it fails, declines, or runs the codec on the payload it
\* extracted (a Transcode here is one asked for the codec's lossless and the
\* explicit little-endian identifier).
RequestOutcome(kind, parsed) ==
    LET none == [ret |-> "", codec |-> "", frag |-> NoBytes, pixels |-> <<>>]
        failed == [none EXCEPT !.ret = "Plugin"]
        ts == GetTransferSyntax(parsed.value)
        frag == GetEncapsulatedData(parsed.value, UInt32(0, 0))
        pixels == GetPixelData(parsed.value)
    IN  IF ~parsed.ok \/ ~ts.ok THEN failed
        ELSE IF IsJxlTransferSyntax(ts.value)
        THEN (IF frag.ok THEN [none EXCEPT !.codec = "Decode", !.frag = frag.value]
              ELSE failed)
        ELSE IF kind = "Transcode"
        THEN (IF pixels.ok THEN [none EXCEPT !.codec = "Encode", !.pixels = pixels.value]
              ELSE failed)
        ELSE [none EXCEPT !.ret = "NotImplemented"]

\* DicomHandler::DicomHandler up to the read: the check of the arguments and
\* the setting of the flag.
RequestConstruct(r) ==
    /\ entry = "Requests" /\ r \in 1..Len(par.reqs) /\ par.reqs[r].at = "start"
    /\ IF par.reqs[r].input.kind = "null"
       THEN par' = [par EXCEPT
                      !.reqs[r].at = "done",
                      !.reqs[r].outcome =
                          RequestOutcome(par.reqs[r].kind,
                                         Throws(NoDoc, "Invalid input DICOM data"))]
       ELSE par' = [par EXCEPT
                      !.dcmIgnoreParsingErrors = SetIgnoreParsingErrors(@),
                      !.reqs[r].at = "read"]
    /\ UNCHANGED <<entry, pc, exc, enc, dec, test, doc, tc, di, hd, cfg>>

\* DicomHandler::DicomHandler from the read on.
RequestRead(r) ==
    /\ entry = "Requests" /\ r \in 1..Len(par.reqs) /\ par.reqs[r].at = "read"
    /\ par' = [par EXCEPT
                 !.reqs[r].at = "parsed",
                 !.reqs[r].parsed = ReadContainer(par.reqs[r].input,
                                                  par.dcmIgnoreParsingErrors)]
    /\ UNCHANGED <<entry, pc, exc, enc, dec, test, doc, tc, di, hd, cfg>>

\* The callback after the constructor.
RequestFinish(r) ==
    /\ entry = "Requests" /\ r \in 1..Len(par.reqs) /\ par.reqs[r].at = "parsed"
    /\ par' = [par EXCEPT
                 !.reqs[r].at = "done",
                 !.reqs[r].outcome = RequestOutcome(par.reqs[r].kind, par.reqs[r].parsed)]
    /\ UNCHANGED <<entry, pc, exc, enc, dec, test, doc, tc, di, hd, cfg>>

\* ------------------------------------------------------- callback inputs
\* The identifiers a caller may hand over or a container may carry.
Identifiers ==
    {TS_JPEG_XL_LOSSLESS, TS_JPEG_XL_JPEG_RECOMPRESSION, TS_JPEG_XL,
     TS_LITTLE_ENDIAN_IMPLICIT, TS_LITTLE_ENDIAN_EXPLICIT, TS_BIG_ENDIAN_EXPLICIT,
     TS_OTHER}

\* allowedSyntaxes, countSyntaxes
AllowedSyntaxLists == UNION {[1..n -> Identifiers] : n \in 0..MaxReq}

\* Codestreams a container may hold.
StreamGray8 ==
    [NoStream EXCEPT !.xsize = 2, !.ysize = 1, !.bits = 8, !.nch = 1,
                     !.px = <<10, 20>>, !.len = JxlHeaderLen + 1]
StreamGray16 ==
    [NoStream EXCEPT !.xsize = 1, !.ysize = 1, !.bits = 16, !.nch = 1,
                     !.px = <<1, 2>>, !.len = JxlHeaderLen + 2]
StreamRGB24 ==
    [NoStream EXCEPT !.xsize = 1, !.ysize = 1, !.bits = 8, !.nch = 3,
                     !.px = <<1, 2, 3>>, !.len = JxlHeaderLen + 2]

\* A fragment holding a whole codestream (padded to an even length), one cut
\* short in its image or in its header, one whose image is overwritten, and
\* one that is no codestream.
WholeFragment(strm) == PadRuns([strm |-> strm, runs |-> <<(<<0, strm.len>>)>>])
TruncatedFragment(strm) == [strm |-> strm, runs |-> <<(<<0, strm.len - 1>>)>>]
HeaderlessFragment(strm) == [strm |-> strm, runs |-> <<(<<0, JxlHeaderLen - 1>>)>>]
CorruptFragment(strm) ==
    [strm |-> strm, runs |-> <<(<<0, JxlHeaderLen>>), (<<-1, 2>>)>>]
GarbageFragment == [strm |-> NoStream, runs |-> <<(<<-1, 2>>)>>]

\* The items of a pixel sequence: the offset table, then the fragments.
FragmentLists(strm) ==
    {<<NoBytes, f>> : f \in {WholeFragment(strm), TruncatedFragment(strm),
                             HeaderlessFragment(strm), CorruptFragment(strm),
                             GarbageFragment}}
    \cup {<<NoBytes, NoBytes>>, <<NoBytes>>, <<>>,
          <<GarbageFragment, WholeFragment(strm)>>,
          <<NoBytes, WholeFragment(strm), GarbageFragment>>}

\* A document with the image attributes of a shape <<cols, rows, bits, spp>>.
DocOf(ts, shape, pixelRep, pixel) ==
    [hasMeta |-> TRUE, ts |-> ts, cols |-> shape[1], rows |-> shape[2],
     bits |-> shape[3], stored |-> shape[3],
     high |-> IF shape[3] > 0 THEN shape[3] - 1 ELSE 0,
     spp |-> shape[4], pixelRep |-> pixelRep, pixel |-> pixel]

ShapeOf(strm) == <<strm.xsize, strm.ysize, strm.bits, strm.nch>>

\* Documents under a codec identifier (or another encapsulated one).
EncapsulatedDocs ==
    UNION {
      {DocOf(ts, ShapeOf(StreamGray8), 0, EncapsulatedPixel(frags, ts))
         : frags \in FragmentLists(StreamGray8)}
      \cup {DocOf(ts, ShapeOf(strm), pixelRep,
                  EncapsulatedPixel(<<NoBytes, WholeFragment(strm)>>, ts))
              : strm \in {StreamGray16, StreamRGB24}, pixelRep \in {0, 1}}
      \cup {DocOf(ts, ShapeOf(StreamGray8), 0, NoPixel),
            DocOf(ts, ShapeOf(StreamGray8), 0, NativePixel(<<10, 20>>))}
      : ts \in {TS_JPEG_XL_LOSSLESS, TS_JPEG_XL_JPEG_RECOMPRESSION, TS_JPEG_XL} }
    \cup {DocOf(TS_OTHER, ShapeOf(StreamGray8), 0,
                EncapsulatedPixel(<<NoBytes, GarbageFragment>>, TS_OTHER))}

\* The shapes of native documents: every size up to MaxDim (0 for a missing
\* attribute) at 8 bits and one sample, and 1x1 at other depths and counts.
NativeShapes ==
    {<<w, h, 8, 1>> : w \in 0..MaxDim, h \in 0..MaxDim}
    \cup {<<1, 1, p[1], p[2]>> : p \in {<<16, 1>>, <<8, 3>>, <<16, 3>>, <<12, 1>>,
                                         <<0, 0>>, <<1, 1>>}}

\* The native payloads of a shape: of the declared size, one byte short of
\* it, and two bytes where the declared size is zero.
NativePayloads(shape) ==
    LET size == InputSize(shape[1], shape[2],
                          TranscodeFormat([samplesPerPixel |-> shape[4],
                                           bitsAllocated |-> shape[3]]))
    IN  IF size = 0 THEN {Ramp(2)}
        ELSE {Ramp(size)} \cup (IF size > 1 THEN {Ramp(size - 1)} ELSE {})

NativeDocs ==
    UNION {{DocOf(TS_LITTLE_ENDIAN_EXPLICIT, shape, 0, NativePixel(bytes))
              : bytes \in NativePayloads(shape)} : shape \in NativeShapes}
    \cup {DocOf(ts, <<1, 1, 8, 1>>, 0, NativePixel(Ramp(1)))
            : ts \in {TS_LITTLE_ENDIAN_IMPLICIT, TS_BIG_ENDIAN_EXPLICIT, TS_OTHER}}
    \cup {DocOf(TS_LITTLE_ENDIAN_EXPLICIT, <<1, 1, 8, 1>>, 0, NoPixel),
          DocOf(TS_LITTLE_ENDIAN_EXPLICIT, <<1, 1, 8, 1>>, 0, NativePixel(<<>>))}

\* Documents without a transfer syntax element, or without meta information.
HeaderlessDocs ==
    {DocOf("", <<1, 1, 8, 1>>, 0, NativePixel(Ramp(1))),
     [DocOf("", <<1, 1, 8, 1>>, 0, NativePixel(Ramp(1))) EXCEPT !.hasMeta = FALSE]}

Documents == EncapsulatedDocs \cup NativeDocs \cup HeaderlessDocs

\* The byte buffers a callback may be handed.
Containers ==
    {Container("null", NoDoc), Container("nodataset", NoDoc)}
    \cup {Container("ok", d) : d \in Documents}
    \cup {Container("warn", d) : d \in {DocOf(TS_LITTLE_ENDIAN_EXPLICIT, <<1, 1, 8, 1>>, 0,
                                              NativePixel(Ramp(1))),
                                        DocOf(TS_JPEG_XL_LOSSLESS, ShapeOf(StreamGray8), 0,
                                              EncapsulatedPixel(
                                                <<NoBytes, WholeFragment(StreamGray8)>>,
                                                TS_JPEG_XL_LOSSLESS))}}

\* ------------------------------------------ specification: TranscoderCallback
InitTranscode ==
    /\ entry = "Transcode"
    /\ pc = "start"
    /\ exc = ""
    /\ par = IdlePar
    /\ enc = IdleEnc
    /\ dec = IdleDec
    /\ test = IdleTest
    /\ doc = NoDoc
    /\ di = IdleDi
    /\ hd = IdleHd
    /\ cfg = IdleCfg
    /\ \E allowed \in AllowedSyntaxLists, input \in Containers :
         tc = [IdleTc EXCEPT !.allowedSyntaxes = allowed, !.input = input]

NextTranscode ==
    \/ TranscodeScan
    \/ TranscodeParse
    \/ TranscodeDispatch
    \/ TranscodeFromExtract
    \/ DecodeInfo
    \/ DecodeProcessInput
    \/ TranscodeFromStore
    \/ TranscodeToRead
    \/ EncodeConfigure
    \/ EncodeProcessOutput
    \/ TranscodeToStore
    \/ TranscodeOutput
    \/ TranscodeCatch

SpecTranscode == InitTranscode /\ [][NextTranscode]_vars

\* ----------------------------------------- specification: DecodeImageCallback
\* The frame indexes a caller may pass: the first frames, and the largest.
FrameIndexes == {UInt32(0, 0), UInt32(0, 1), UInt32(0, 2), UInt32(65535, 65535)}

InitDecodeImage ==
    /\ entry = "DecodeImage"
    /\ pc = "start"
    /\ exc = ""
    /\ par = IdlePar
    /\ enc = IdleEnc
    /\ dec = IdleDec
    /\ test = IdleTest
    /\ doc = NoDoc
    /\ tc = IdleTc
    /\ hd = IdleHd
    /\ cfg = IdleCfg
    /\ \E input \in Containers, frameIndex \in FrameIndexes :
         di = [IdleDi EXCEPT !.input = input, !.frameIndex = frameIndex]

NextDecodeImage ==
    \/ DecodeImageEnter
    \/ DecodeInfo
    \/ DecodeProcessInput
    \/ DecodeImageFinish
    \/ DecodeImageCatch

SpecDecodeImage == InitDecodeImage /\ [][NextDecodeImage]_vars

\* --------------------------------------------------- specification: RunTest
InitCodec ==
    /\ entry = "RunTest"
    /\ pc = "start"
    /\ exc = ""
    /\ par = IdlePar
    /\ enc = IdleEnc
    /\ dec = IdleDec
    /\ test \in TestInputs
    /\ doc = NoDoc
    /\ tc = IdleTc
    /\ di = IdleDi
    /\ hd = IdleHd
    /\ cfg = IdleCfg

NextCodec ==
    \/ RunTestEncode
    \/ EncodeConfigure
    \/ EncodeProcessOutput
    \/ RunTestDecode
    \/ DecodeProcessInput
    \/ RunTestVerify
    \/ RunTestCatch

SpecCodec == InitCodec /\ [][NextCodec]_vars

\* Encode runs on: its thread is not stopped inside the output loop.
SpecCodecLive == SpecCodec /\ WF_vars(EncodeProcessOutput)

\* ------------------------------------ specification: the payload operations
\* The byte vectors a caller may store: codestreams and runs of zero bytes of
\* up to MaxFragLen bytes.
PayloadVectors ==
    {[strm |-> [StreamGray8 EXCEPT !.len = n], runs |-> Normalize(<<(<<0, n>>)>>)]
       : n \in 0..MaxFragLen}
    \cup {[strm |-> NoStream, runs |-> Normalize(<<(<<-1, n>>)>>)] : n \in 0..MaxFragLen}

\* handler.SetTransferSyntax(id)
HandlerSetTransferSyntax ==
    /\ entry = "Handler" /\ pc = "start"
    /\ \E id \in Identifiers, putOk \in BOOLEAN :
         LET r == SetTransferSyntax(doc, id, putOk)
         IN  /\ doc' = r.value
             /\ hd' = [hd EXCEPT !.id = id, !.tsSet = r.ok]
             /\ pc' = IF r.ok THEN "hd_ts" ELSE "catch"
             /\ exc' = r.error
    /\ UNCHANGED <<entry, enc, dec, test, tc, di, cfg, par>>

\* handler.GetTransferSyntax()
HandlerGetTransferSyntax ==
    /\ entry = "Handler" /\ pc = "hd_ts"
    /\ LET r == GetTransferSyntax(doc)
       IN  /\ hd' = [hd EXCEPT !.ts = r.value]
           /\ pc' = IF r.ok THEN "done" ELSE "catch"
           /\ exc' = r.error
    /\ UNCHANGED <<entry, enc, dec, test, doc, tc, di, cfg, par>>

InitHandler ==
    /\ entry = "Handler"
    /\ pc = "start"
    /\ exc = ""
    /\ par = IdlePar
    /\ enc = IdleEnc
    /\ dec = IdleDec
    /\ test = IdleTest
    /\ tc = IdleTc
    /\ di = IdleDi
    /\ doc \in Documents
    /\ \E data \in PayloadVectors : hd = [IdleHd EXCEPT !.data = data, !.before = doc]
    /\ cfg = IdleCfg

NextHandler ==
    \/ HandlerSetJxlPixelData
    \/ HandlerGetEncapsulatedData
    \/ HandlerSetTransferSyntax
    \/ HandlerGetTransferSyntax
    \/ HandlerCatch

SpecHandler == InitHandler /\ [][NextHandler]_vars

\* ================================================================ properties
\* C1: in the modes Lossless and ProgressiveLossless, for every format, every
\* size above zero, every pixel buffer of the declared size and every effort
\* in 1..10, Decode of what Encode returned, in the same format, succeeds and
\* returns a buffer of the length of the pixels and equal to them byte for
\* byte; a run fails only where the codec library refuses to set an encoder
\* or a decoder up or reports an encoding error, never on what Encode
\* returned.
C1_LosslessRoundTrip ==
    (entry = "RunTest" /\ test.mode \in {"Lossless", "ProgressiveLossless"}) =>
        /\ pc = "done" =>
             /\ Len(test.decoded) = Len(test.pixels)
             /\ test.decoded = test.pixels
             /\ test.verified
        /\ pc \in {"dec_loop", "dec_ret"} => StreamComplete(dec.data)
        /\ pc \in {"catch", "failed"} =>
             exc \notin {"Decoder error", "Incomplete JXL data",
                         "Failed to set output buffer"}
        /\ pc # "crashed"

C1_Witness ==
    /\ entry = "RunTest" /\ pc = "done"
    /\ test.mode = "ProgressiveLossless" /\ test.format = "RGB48"
    /\ test.width = MaxDim /\ test.height = MaxDim
    /\ enc.doublings = 2
    /\ test.decoded = test.pixels /\ Len(test.decoded) = MaxDim * MaxDim * 6

\* C2: for every container whose current identifier is in the requested
\* list, whatever else the list holds, Transcode signals 'not applicable',
\* runs neither the decoder nor the encoder, leaves the document as parsed
\* and allocates no output.
C2_InListNotApplicable ==
    (/\ entry = "Transcode" /\ tc.currentTs # ""
     /\ \E i \in 1..Len(tc.allowedSyntaxes) : tc.allowedSyntaxes[i] = tc.currentTs) =>
        /\ pc = "done" /\ tc.ret = "NotImplemented"
        /\ enc.calls = 0 /\ dec.calls = 0
        /\ doc = tc.parsedDoc
        /\ ~tc.allocated /\ tc.transcoded = NoOutput

\* C3: after a successful native-to-codec Transcode the document's identifier
\* is the codec's lossless one and its payload is encapsulated; after a
\* successful codec-to-native Transcode the identifier is the chosen native
\* one and the payload is native; the output is that document written under
\* that identifier.
C3_IdentifierConsistency ==
    (entry = "Transcode" /\ tc.ret = "Success") =>
        /\ tc.dir \in {"TO-JXL", "FROM-JXL"}
        /\ tc.transcoded.doc = doc
        /\ tc.transcoded.xfer = doc.ts
        /\ tc.dir = "TO-JXL" =>
             /\ doc.ts = "1.2.840.10008.1.2.4.110"
             /\ doc.pixel.rep = "encapsulated"
             /\ doc.pixel.xfer = doc.ts
        /\ tc.dir = "FROM-JXL" =>
             /\ doc.ts = tc.uncompressedSyntax
             /\ doc.ts \in {"1.2.840.10008.1.2", "1.2.840.10008.1.2.1",
                            "1.2.840.10008.1.2.2"}
             /\ doc.pixel.rep = "native"

C3_Witness ==
    /\ entry = "Transcode" /\ tc.ret = "Success" /\ tc.dir = "FROM-JXL"
    /\ tc.parsedDoc.ts = TS_JPEG_XL /\ tc.parsedDoc.pixel.rep = "encapsulated"
    /\ doc.ts = TS_BIG_ENDIAN_EXPLICIT /\ doc.pixel.rep = "native"

\* C4: whenever a step of Transcode fails (parse, identifier, extraction,
\* codec, substitution, serialisation, allocation) the call returns the one
\* 'failed' outcome with the caller's buffer neither allocated nor written;
\* the buffer is written only once serialisation has completed, and only a
\* successful call has written it.
C4_NoPartialOutput ==
    entry = "Transcode" =>
        /\ tc.ret \in {"", "Success", "NotImplemented", "Plugin"}
        /\ tc.allocated =>
             /\ pc = "done" /\ tc.ret = "Success" /\ exc = ""
             /\ tc.output # NoOutput /\ tc.transcoded = tc.output
             /\ \E i \in 1..Len(tc.steps) : tc.steps[i] = "serialize"
        /\ ~tc.allocated => tc.transcoded = NoOutput
        /\ tc.ret = "Success" => tc.allocated
        /\ (pc = "done" /\ exc # "") => tc.ret = "Plugin"
        /\ (pc = "done" /\ tc.dir # "" /\ ~tc.allocated) => tc.ret = "Plugin"
        /\ pc # "failed"

C4_Witness ==
    /\ entry = "Transcode" /\ pc = "done" /\ tc.ret = "Plugin"
    /\ exc = "Failed to write DICOM"
    /\ tc.dir = "TO-JXL" /\ doc.pixel.rep = "encapsulated"
    /\ ~tc.allocated /\ tc.transcoded = NoOutput

\* C5: whenever the current identifier is one of the codec's three and the
\* requested list holds a native identifier, Transcode takes the
\* codec-to-native direction with the native identifier that comes first in
\* the list, decodes the fragment of frame 0 only, and on success has that
\* image as the native payload, set and written under that identifier.
C5_FirstNativeIdentifier ==
    (/\ entry = "Transcode" /\ tc.currentTs # ""
     /\ tc.currentTs \in {"1.2.840.10008.1.2.4.110", "1.2.840.10008.1.2.4.111",
                          "1.2.840.10008.1.2.4.112"}
     /\ \E i \in 1..Len(tc.allowedSyntaxes) :
          IsUncompressedTransferSyntax(tc.allowedSyntaxes[i])) =>
        /\ tc.dir = "FROM-JXL"
        /\ enc.calls = 0
        /\ \E i \in 1..Len(tc.allowedSyntaxes) :
             /\ tc.allowedSyntaxes[i] = tc.uncompressedSyntax
             /\ IsUncompressedTransferSyntax(tc.allowedSyntaxes[i])
             /\ \A j \in 1..(i - 1) : ~IsUncompressedTransferSyntax(tc.allowedSyntaxes[j])
        /\ dec.calls > 0 =>
             /\ Len(tc.parsedDoc.pixel.frags) >= 2
             /\ dec.data = tc.parsedDoc.pixel.frags[2]
        /\ tc.ret = "Success" =>
             /\ doc.pixel = NativePixel(PadBytes(DecodedPixels(
                                tc.parsedDoc.pixel.frags[2].strm,
                                DecodePixelFormat(dec.outputFormat))))
             /\ doc.ts = tc.uncompressedSyntax
             /\ tc.transcoded.xfer = tc.uncompressedSyntax

C5_Witness ==
    /\ entry = "Transcode" /\ tc.ret = "Success"
    /\ tc.allowedSyntaxes = <<TS_BIG_ENDIAN_EXPLICIT, TS_LITTLE_ENDIAN_EXPLICIT>>
    /\ tc.currentTs = TS_JPEG_XL_JPEG_RECOMPRESSION
    /\ Len(tc.parsedDoc.pixel.frags) = 3
    /\ doc.ts = TS_BIG_ENDIAN_EXPLICIT /\ doc.pixel.bytes = <<10, 20>>

\* C6 as stated: whenever the current identifier is not a codec identifier
\* and any of the three codec identifiers is requested, Transcode takes the
\* native-to-codec direction.
C6_AnyCodecIdentifierTriggers ==
    (/\ entry = "Transcode" /\ tc.currentTs # ""
     /\ tc.currentTs \notin {"1.2.840.10008.1.2.4.110", "1.2.840.10008.1.2.4.111",
                             "1.2.840.10008.1.2.4.112"}
     /\ \E i \in 1..Len(tc.allowedSyntaxes) :
          tc.allowedSyntaxes[i] \in {"1.2.840.10008.1.2.4.110", "1.2.840.10008.1.2.4.111",
                                     "1.2.840.10008.1.2.4.112"}) =>
        /\ tc.dir = "TO-JXL"
        /\ tc.ret # "NotImplemented"

\* C6, amended: whenever the current identifier is not a codec identifier,
\* Transcode takes the native-to-codec direction (reads the native pixels,
\* encodes them, writes an encapsulated payload) exactly when the codec's
\* lossless identifier is requested; with only the recompression or the lossy
\* identifier requested it signals 'not applicable'.
C6_LosslessIdentifierTriggers ==
    (/\ entry = "Transcode" /\ tc.currentTs # ""
     /\ tc.currentTs \notin {"1.2.840.10008.1.2.4.110", "1.2.840.10008.1.2.4.111",
                             "1.2.840.10008.1.2.4.112"}) =>
        IF \E i \in 1..Len(tc.allowedSyntaxes) :
             tc.allowedSyntaxes[i] = "1.2.840.10008.1.2.4.110"
        THEN /\ tc.dir = "TO-JXL"
             /\ tc.ret # "NotImplemented"
             /\ dec.calls = 0
             /\ enc.calls > 0 => enc.pixels = tc.parsedDoc.pixel.bytes
             /\ tc.ret = "Success" =>
                  /\ enc.calls > 0
                  /\ doc.pixel.rep = "encapsulated"
                  /\ doc.pixel.frags[2] = PadRuns(enc.out)
        ELSE /\ pc = "done" /\ tc.ret = "NotImplemented"
             /\ tc.dir = "" /\ enc.calls = 0 /\ dec.calls = 0

C6_Witness ==
    /\ entry = "Transcode" /\ tc.ret = "Success" /\ tc.dir = "TO-JXL"
    /\ tc.allowedSyntaxes = <<TS_JPEG_XL, TS_JPEG_XL_LOSSLESS>>
    /\ tc.currentTs = TS_LITTLE_ENDIAN_EXPLICIT
    /\ doc.pixel.rep = "encapsulated"

\* C7: in every native-to-codec Transcode the encoder is called in the mode
\* ProgressiveLossless with effort 7, centerX = floor(width / 2) and
\* centerY = floor(height / 2) of the declared size, and the format given by
\* samplesPerPixel and bitsAllocated alone (one sample: Gray8 up to 8 bits,
\* else Gray16; otherwise RGB24 up to 8 bits, else RGB48); the result is
\* written under the codec's lossless identifier.
C7_EncodeParameters ==
    (entry = "Transcode" /\ enc.calls > 0) =>
        /\ tc.dir = "TO-JXL"
        /\ enc.options.mode = "ProgressiveLossless"
        /\ enc.options.effort = 7
        /\ enc.width = tc.parsedDoc.cols /\ enc.height = tc.parsedDoc.rows
        /\ 2 * enc.options.centerX <= tc.parsedDoc.cols
        /\ tc.parsedDoc.cols < 2 * enc.options.centerX + 2
        /\ 2 * enc.options.centerY <= tc.parsedDoc.rows
        /\ tc.parsedDoc.rows < 2 * enc.options.centerY + 2
        /\ enc.format =
             (CASE tc.parsedDoc.spp = 1 /\ tc.parsedDoc.bits <= 8 -> "Gray8"
                [] tc.parsedDoc.spp = 1 /\ tc.parsedDoc.bits > 8 -> "Gray16"
                [] tc.parsedDoc.spp # 1 /\ tc.parsedDoc.bits <= 8 -> "RGB24"
                [] OTHER -> "RGB48")
        /\ enc.strm # NoStream =>
             /\ enc.settings.lossless /\ enc.settings.responsive = 1
             /\ enc.settings.effort = 7
             /\ enc.settings.centerX = enc.options.centerX
             /\ enc.settings.centerY = enc.options.centerY
        /\ tc.ret = "Success" =>
             /\ tc.transcoded.xfer = "1.2.840.10008.1.2.4.110"
             /\ doc.ts = "1.2.840.10008.1.2.4.110"

C7_Witness ==
    /\ entry = "Transcode" /\ tc.ret = "Success" /\ enc.calls > 0
    /\ tc.parsedDoc.cols = MaxDim /\ tc.parsedDoc.rows = 1
    /\ enc.options.centerX = MaxDim \div 2 /\ enc.options.centerY = 0
    /\ enc.format = "Gray8"

\* C8: if neither (the current identifier is a codec one and a native
\* identifier is requested) nor (the current identifier is not a codec one
\* and a codec identifier is requested), Transcode signals 'not applicable'
\* with the parsed document as it was, the codec not called and no output
\* allocated; a codec-identified container with only codec identifiers
\* requested is never re-encoded.
C8_NeitherDirection ==
    (/\ entry = "Transcode" /\ tc.currentTs # ""
     /\ LET codec == {"1.2.840.10008.1.2.4.110", "1.2.840.10008.1.2.4.111",
                      "1.2.840.10008.1.2.4.112"}
            requested == {tc.allowedSyntaxes[i] : i \in 1..Len(tc.allowedSyntaxes)}
        IN  /\ ~(tc.currentTs \in codec
                 /\ \E id \in requested : IsUncompressedTransferSyntax(id))
            /\ ~(tc.currentTs \notin codec /\ requested \cap codec # {})) =>
        /\ pc = "done" /\ tc.ret = "NotImplemented"
        /\ tc.dir = ""
        /\ doc = tc.parsedDoc
        /\ enc.calls = 0 /\ dec.calls = 0
        /\ ~tc.allocated /\ tc.transcoded = NoOutput

C8_Witness ==
    /\ entry = "Transcode" /\ pc = "done" /\ tc.ret = "NotImplemented"
    /\ tc.currentTs = TS_JPEG_XL_LOSSLESS
    /\ tc.allowedSyntaxes = <<TS_JPEG_XL, TS_JPEG_XL_JPEG_RECOMPRESSION>>
    /\ doc = tc.parsedDoc /\ doc.pixel.rep = "encapsulated"

\* C9: for every container whose identifier is not one of the codec's three,
\* DecodeImageCallback signals 'not applicable' before it extracts a fragment
\* or calls the decoder, and leaves the target unset; for a codec identifier
\* it never signals 'not applicable'.
C9_DecodeApplicability ==
    (/\ entry = "DecodeImage" /\ pc # "start"
     /\ di.input.kind \in {"ok", "warn"}
     /\ di.input.doc.hasMeta /\ di.input.doc.ts # "") =>
        IF di.input.doc.ts \in {"1.2.840.10008.1.2.4.110", "1.2.840.10008.1.2.4.111",
                                "1.2.840.10008.1.2.4.112"}
        THEN di.ret # "NotImplemented"
        ELSE /\ pc = "done" /\ di.ret = "NotImplemented"
             /\ ~di.extracted /\ di.jxlData = NoBytes
             /\ dec.calls = 0
             /\ di.target = NoImage /\ di.image = NoImage

C9_Witness ==
    /\ entry = "DecodeImage" /\ pc = "done" /\ di.ret = "NotImplemented"
    /\ di.input.doc.ts = TS_OTHER /\ di.input.doc.pixel.rep = "encapsulated"
    /\ dec.calls = 0 /\ di.target = NoImage

\* C10 as stated: after SetJxlPixelData(b) returns, the document's pixel
\* element is encapsulated with two fragments, the first empty and the second
\* equal to b byte for byte, and GetEncapsulatedData(0) returns b.
C10_FragmentEqualsInput ==
    (entry = "Handler" /\ hd.stored) =>
        /\ doc.pixel.rep = "encapsulated"
        /\ Len(doc.pixel.frags) = 2
        /\ RunsSize(doc.pixel.frags[1].runs) = 0
        /\ doc.pixel.frags[2] = hd.data
        /\ hd.fetched => hd.fragment = hd.data

\* C10, amended: after SetJxlPixelData(b) returns, whatever pixel element the
\* document held, its pixel element is encapsulated with two fragments, the
\* first empty and the second b followed by one zero byte when b's length is
\* odd, b itself when it is even; GetEncapsulatedData(0) succeeds and returns
\* that second fragment.
C10_FragmentIsPaddedInput ==
    (entry = "Handler" /\ hd.stored) =>
        LET padded == [strm |-> hd.data.strm,
                       runs |-> Normalize(hd.data.runs
                                  \o <<(<<-1, RunsSize(hd.data.runs) % 2>>)>>)]
        IN  /\ doc.pixel.rep = "encapsulated"
            /\ Len(doc.pixel.frags) = 2
            /\ RunsSize(doc.pixel.frags[1].runs) = 0
            /\ doc.pixel.frags[2] = padded
            /\ RunsSize(doc.pixel.frags[2].runs) % 2 = 0
            /\ TakeRuns(doc.pixel.frags[2].runs, RunsSize(hd.data.runs)) = hd.data.runs
            /\ pc \in {"hd_get", "done"}
            /\ pc = "done" => (hd.fetched /\ hd.fragment = padded)

C10_Witness ==
    /\ entry = "Handler" /\ pc = "done" /\ hd.stored /\ hd.fetched
    /\ hd.before.pixel.rep = "native"
    /\ RunsSize(hd.data.runs) = 3
    /\ RunsSize(hd.fragment.runs) = 4
    /\ Len(doc.pixel.frags) = 2

\* C11: for an encapsulated payload with N frame fragments (the items after
\* the offset table), GetEncapsulatedData(frameIndex) with frameIndex >= N
\* fails with "Failed to get pixel item for frame" and returns nothing; it
\* also fails, and never returns empty bytes, when the selected fragment is
\* empty or the payload is not encapsulated.
C11_OutOfRangeFails ==
    (/\ entry = "DecodeImage" /\ pc # "start"
     /\ di.input.kind \in {"ok", "warn"}
     /\ di.input.doc.hasMeta
     /\ di.input.doc.ts \in {"1.2.840.10008.1.2.4.110", "1.2.840.10008.1.2.4.111",
                             "1.2.840.10008.1.2.4.112"}) =>
        LET pixel == di.input.doc.pixel
            n == IF Len(pixel.frags) > 0 THEN Len(pixel.frags) - 1 ELSE 0
        IN  /\ (/\ pixel.rep = "encapsulated"
                /\ (di.frameIndex.hi > 0 \/ di.frameIndex.lo >= n)) =>
                  /\ ~di.extracted /\ di.jxlData = NoBytes
                  /\ exc = "Failed to get pixel item for frame"
            /\ pixel.rep # "encapsulated" => (~di.extracted /\ exc # "")
            /\ di.extracted => RunsSize(di.jxlData.runs) > 0

\* C12: SetTransferSyntax(id) fails whenever the document has no meta
\* information; it never returns without having written the identifier, so
\* after every SetTransferSyntax(id) that returned, GetTransferSyntax()
\* returns id.
C12_SetThenGetIdentifier ==
    (entry = "Handler" /\ hd.tsSet) =>
        /\ hd.before.hasMeta
        /\ doc.ts = hd.id
        /\ pc \in {"done", "failed"} => (pc = "done" /\ hd.ts = hd.id)

\* C13: when the creation of the encoder or any configuration stage fails
\* (runner, basic info, colour encoding, frame settings, every frame option
\* of the mode, the effort, the frame) or the output loop reports an error,
\* Encode raises JxlCodecError and returns no bytes; Encode never returns
\* bytes produced after the codec rejected a configuration step.
C13_EncodeFailureReporting ==
    /\ (enc.calls > 0 /\ enc.out # NoBytes) => EffortAccepted(enc.options.effort)
    /\ (enc.calls > 0 /\ pc = "catch"
        /\ exc \in {EncodeStageError(EncodeStages[i]) : i \in 1..Len(EncodeStages)}
                   \cup {"Encoding failed with error"}) => enc.out = NoBytes

\* ------------------------------------- specification: PluginConfig::Parse
\* The inputs of Parse; a key of the section holds nothing, a string, a
\* number or a boolean.
ConfigInputs ==
    LET absent == Json("absent", "", 0, FALSE)
        modes == {absent, Json("number", "", 1, FALSE), Json("string", "Lossy", 0, FALSE)}
                 \cup {Json("string", m, 0, FALSE) : m \in EncodeMode}
        numbers(ns) == {absent, Json("string", "3", 0, FALSE), Json("boolean", "", 0, TRUE)}
                       \cup {Json("number", "", n, FALSE) : n \in ns}
        bools == {absent, Json("number", "", 1, FALSE),
                  Json("boolean", "", 0, TRUE), Json("boolean", "", 0, FALSE)}
    IN  {[kind |-> k] : k \in {"null", "unparsable", "nosection", "scalar"}}
        \cup {[kind |-> "section",
               section |-> [Mode |-> m, Effort |-> e, Distance |-> d,
                            CenterFirstOrdering |-> c, ProgressiveDC |-> dc,
                            ProgressiveAC |-> ac]]
                : m \in modes,
                  e \in numbers({MinEffort - 1, MinEffort, MaxEffort, MaxEffort + 1}),
                  d \in numbers({-1, 0, 2}),
                  c \in bools,
                  dc \in numbers({-1, 0, 2, 3}),
                  ac \in {absent, Json("boolean", "", 0, TRUE)}}

InitConfig ==
    /\ entry = "Parse"
    /\ pc = "start"
    /\ exc = ""
    /\ par = IdlePar
    /\ enc = IdleEnc
    /\ dec = IdleDec
    /\ test = IdleTest
    /\ doc = NoDoc
    /\ tc = IdleTc
    /\ di = IdleDi
    /\ hd = IdleHd
    /\ \E j \in ConfigInputs : cfg = [IdleCfg EXCEPT !.jsonConfig = j]

NextConfig == ConfigParse

SpecConfig == InitConfig /\ [][NextConfig]_vars

\* C14: for every configuration input (null, unparsable, without the plugin
\* section, with a field of the wrong type, a value out of range or an
\* unknown mode string) Parse returns, and every field that is absent or
\* invalid holds its default (mode ProgressiveLossless, effort 7,
\* centerFirstOrdering true); the options always have effort in 1..10,
\* progressiveDC in 0..2 and distance >= 0.
C14_ConfigurationFallback ==
    (entry = "Parse" /\ pc # "start") =>
        /\ pc = "done" /\ cfg.returned /\ exc = ""
        /\ cfg.config.encodeOptions.effort \in 1..10
        /\ cfg.config.encodeOptions.progressiveDC \in 0..2
        /\ cfg.config.encodeOptions.distance >= 0
        /\ cfg.jsonConfig.kind # "section" => cfg.config = Default
        /\ cfg.jsonConfig.kind = "section" =>
             LET section == cfg.jsonConfig.section
             IN  /\ (section.Mode.t # "string" \/ section.Mode.s \notin EncodeMode) =>
                       cfg.config.encodeOptions.mode = "ProgressiveLossless"
                 /\ (section.Effort.t # "number" \/ section.Effort.n \notin 1..10) =>
                       cfg.config.encodeOptions.effort = 7
                 /\ section.CenterFirstOrdering.t # "boolean" =>
                       cfg.config.centerFirstOrdering

\* C15: whenever Decode(bytes, outputFormat) returns for a stream whose
\* header declares width w and height h, the buffer it returns is
\* w * h * bytesPerPixel(outputFormat) bytes long, in every encode mode,
\* ProgressiveVarDCT with a distance above 0 included.
C15_DecodedSize ==
    (entry = "RunTest" /\ pc \in {"dec_ret", "done"}) =>
        /\ Len(dec.out) = dec.data.strm.xsize * dec.data.strm.ysize
                            * kFormatInfo[dec.outputFormat].bytesPerPixel
        /\ dec.data.strm.xsize = test.width /\ dec.data.strm.ysize = test.height
        /\ dec.outputFormat = test.format

C15_Witness ==
    /\ entry = "RunTest" /\ pc = "done"
    /\ test.mode = "ProgressiveVarDCT" /\ test.distance > 0
    /\ test.format = "RGB48" /\ test.width = MaxDim /\ test.height = 1
    /\ Len(dec.out) = MaxDim * 6
    /\ test.decoded # test.pixels

\* C16: for every list of allowed syntaxes and every container, if
\* TranscoderCallback returns success then the transfer syntax written into
\* the output's meta information and used to serialise it is one of the
\* allowed syntaxes.
C16_OutputIdentifierAllowed ==
    (entry = "Transcode" /\ tc.ret = "Success") =>
        LET allowed == {tc.allowedSyntaxes[i] : i \in 1..Len(tc.allowedSyntaxes)}
        IN  /\ doc.ts \in allowed
            /\ tc.transcoded.doc.ts \in allowed
            /\ tc.transcoded.xfer \in allowed

C16_Witness ==
    /\ entry = "Transcode" /\ tc.ret = "Success" /\ tc.dir = "FROM-JXL"
    /\ tc.allowedSyntaxes = <<TS_OTHER, TS_LITTLE_ENDIAN_IMPLICIT>>
    /\ tc.transcoded.xfer = TS_LITTLE_ENDIAN_IMPLICIT
    /\ tc.transcoded.doc.ts = TS_LITTLE_ENDIAN_IMPLICIT

\* C17: at every call of JxlEncoderProcessOutput the write offset plus the
\* available space is the size of the buffer; after k NEED_MORE_OUTPUT
\* statuses the size is 64 KiB * 2^k, the bytes written so far are still
\* counted and still at the start of the buffer, byte for byte, and writing
\* goes on where it stopped; on success the buffer returned is exactly the
\* written bytes.
C17_OutputBufferAccounting ==
    /\ pc = "enc_loop" =>
         /\ enc.nextOut + enc.availOut = RunsSize(enc.result)
         /\ RunsSize(enc.result) = InitialCapacity * 2^enc.doublings
         /\ enc.nextOut = enc.strm.len - enc.left
         /\ Normalize(TakeRuns(enc.result, enc.nextOut))
              = Normalize(<<(<<0, enc.nextOut>>)>>)
    /\ pc = "enc_ret" =>
         /\ RunsSize(enc.result) = enc.nextOut
         /\ RunsSize(enc.result) = InitialCapacity * 2^enc.doublings - enc.availOut
         /\ enc.out.runs = enc.result
         /\ Normalize(enc.result) = <<(<<0, enc.strm.len>>)>>

C17_Witness ==
    /\ pc = "enc_loop" /\ enc.doublings = 2
    /\ enc.nextOut = 2 * InitialCapacity /\ enc.left = 1
    /\ enc.availOut = 2 * InitialCapacity

\* C18: given a codec with a finite amount of output that writes whenever
\* there is space, Encode's output loop always reaches its end: it returns
\* on JXL_ENC_SUCCESS or raises on a status that is neither success nor
\* NEED_MORE_OUTPUT, and between the two it doubles the buffer finitely many
\* times (never more often than it has bytes written).
C18_OutputLoopTerminates ==
    /\ [](pc = "enc_loop" => <>(pc \in {"enc_ret", "catch"}))
    /\ [](pc = "enc_loop" =>
            (enc.doublings <= enc.nextOut /\ enc.doublings < MaxDoublings))

C18_Witness ==
    /\ pc = "enc_ret" /\ enc.doublings = 2
    /\ enc.strm.len = 2 * InitialCapacity + 1
    /\ RunsSize(enc.out.runs) = 2 * InitialCapacity + 1

\* ------------------------- specification: Decode against the decoder's interface
\* A caller of Decode takes its return or its JxlCodecError.
DecodeEnd ==
    /\ entry = "Decode" /\ pc \in {"dec_ret", "catch"}
    /\ pc' = IF pc = "dec_ret" THEN "done" ELSE "failed"
    /\ UNCHANGED <<entry, exc, enc, dec, test, doc, tc, di, hd, cfg, par>>

\* Decode(data, size, outputFormat) and Decode(data, size) on a codestream,
\* with a decoder that may report any status at any turn.
InitDecode ==
    /\ entry = "Decode"
    /\ exc = ""
    /\ par = IdlePar
    /\ enc = IdleEnc
    /\ test = IdleTest
    /\ doc = NoDoc
    /\ tc = IdleTc
    /\ di = IdleDi
    /\ hd = IdleHd
    /\ cfg = IdleCfg
    /\ \E strm \in {StreamGray8, StreamGray16, StreamRGB24} :
         \/ /\ dec = [DecodeAutoCall(WholeFragment(strm)) EXCEPT !.any = TRUE]
            /\ pc = "decinfo"
         \/ /\ \E outputFormat \in PixelFormat :
                 dec = [DecodeCall(WholeFragment(strm), outputFormat) EXCEPT !.any = TRUE]
            /\ pc = "dec_loop"

NextDecode ==
    \/ DecodeInfo
    \/ DecodeProcessInput
    \/ DecodeEnd

SpecDecode == InitDecode /\ [][NextDecode]_vars

\* C19: whatever statuses the decoder reports, DecodeInfo returns the
\* ImageInfo of the first BASIC_INFO status, looking at no later one, or
\* fails; it fails when the decoder reports an error or the end of the
\* stream (NEED_MORE_INPUT or SUCCESS) before BASIC_INFO; it never goes on
\* looping and never returns dimensions it did not read.
C19_DecodeInfoReturnsOrFails ==
    (entry = "Decode" /\ dec.auto) =>
        /\ pc = "decinfo" => dec.status \notin {"ERROR", "NEED_MORE_INPUT", "SUCCESS"}
        /\ pc \in {"dec_loop", "dec_ret"} =>
             /\ dec.info = InfoOf(dec.data.strm)
             /\ dec.info.width > 0 /\ dec.info.height > 0
        /\ pc = "decinfo" => dec.info = NoInfo

\* C20: in one call of Decode, whatever statuses the decoder reports, the
\* output buffer is set on the first NEED_IMAGE_OUT_BUFFER only: every later
\* NEED_IMAGE_OUT_BUFFER asks for no size, resizes nothing and sets no
\* buffer.
C20_OutputBufferBoundOnce ==
    [][(pc = "dec_loop" /\ dec'.turns = dec.turns + 1
        /\ dec'.status = "NEED_IMAGE_OUT_BUFFER") =>
         /\ dec'.binds <= 1
         /\ dec'.binds > dec.binds => dec'.needs = 1
         /\ dec.needs >= 1 =>
              /\ dec'.queries = dec.queries
              /\ dec'.binds = dec.binds
              /\ dec'.result = dec.result
              /\ dec'.outputBufferSet = dec.outputBufferSet
              /\ pc' = "dec_loop"]_vars

C20_Witness ==
    /\ entry = "Decode" /\ pc = "dec_loop"
    /\ dec.status = "NEED_IMAGE_OUT_BUFFER"
    /\ dec.needs = 2 /\ dec.binds = 1 /\ dec.queries = 1
    /\ dec.outputBufferSet /\ Len(dec.result) > 0

\* C21: in every call of Decode, when the decoder reports ERROR or
\* NEED_MORE_INPUT at any turn (before or after the header, before or after
\* the output buffer was set) Decode throws and returns no buffer, even when
\* part of the buffer is filled already.
C21_NoPartialImage ==
    (entry = "Decode" /\ pc # "decinfo"
     /\ dec.status \in {"ERROR", "NEED_MORE_INPUT"}) =>
        /\ pc \in {"catch", "failed"}
        /\ dec.out = <<>>
        /\ exc \in {"Decoder error", "Incomplete JXL data",
                    "Decoder error while reading info"}

C21_Witness ==
    /\ entry = "Decode" /\ pc = "failed" /\ exc = "Incomplete JXL data"
    /\ dec.status = "NEED_MORE_INPUT" /\ dec.outputBufferSet
    /\ dec.result # <<>> /\ dec.result[1] = dec.data.strm.px[1]
    /\ dec.out = <<>>

\* C22: whenever Decode returns (on FULL_IMAGE or on SUCCESS) a header has
\* been seen, the output buffer was set earlier in the call and has kept its
\* size since; Decode never returns the empty, or the sized but never set,
\* buffer.
C22_SuccessImpliesFilledBuffer ==
    (entry = "Decode" /\ pc \in {"dec_ret", "done"}) =>
        /\ dec.stage # "start"
        /\ dec.outputBufferSet /\ dec.binds = 1
        /\ dec.out # <<>>
        /\ Len(dec.out) = ImageOutBufferSize(dec.data.strm,
                                             DecodePixelFormat(dec.outputFormat))

\* C23: with mode Lossless or ProgressiveLossless, whatever options.distance
\* is, the encoder is set lossless with frame distance 0; only under
\* ProgressiveVarDCT does options.distance reach the codec, where distance 0
\* sets the lossless flag and a distance above 0 clears it.  The centre
\* coordinates are passed to the codec under the two progressive modes only.
C23_LosslessIgnoresDistance ==
    (enc.calls > 0 /\ enc.strm # NoStream) =>
        /\ enc.options.mode \in {"Lossless", "ProgressiveLossless"} =>
             /\ enc.settings.lossless /\ enc.settings.distance = 0
             /\ enc.strm.lossless /\ enc.strm.px = enc.pixels
        /\ enc.options.mode = "ProgressiveVarDCT" =>
             /\ enc.settings.distance = enc.options.distance
             /\ enc.options.distance = 0 => enc.settings.lossless
             /\ enc.options.distance > 0 => ~enc.settings.lossless
        /\ enc.settings.centerSet <=>
             enc.options.mode \in {"ProgressiveLossless", "ProgressiveVarDCT"}
        /\ enc.settings.centerSet =>
             /\ enc.settings.centerX = enc.options.centerX
             /\ enc.settings.centerY = enc.options.centerY
        /\ ~enc.settings.centerSet =>
             (enc.settings.centerX = -1 /\ enc.settings.centerY = -1
              /\ enc.settings.groupOrder = -1)

C23_Witness ==
    /\ entry = "RunTest" /\ pc = "done" /\ test.verified
    /\ enc.options.mode = "Lossless" /\ enc.options.distance = 1
    /\ enc.settings.lossless /\ enc.settings.distance = 0
    /\ ~enc.settings.centerSet

\* ------------------------------------------------------ GetEncodeOptions
\* The configurations a PluginConfig value can hold (its fields are public)
\* and the image sizes it is asked about.
InitOptions ==
    /\ entry = "GetEncodeOptions"
    /\ pc = "start"
    /\ exc = ""
    /\ par = IdlePar
    /\ enc = IdleEnc
    /\ dec = IdleDec
    /\ test = IdleTest
    /\ doc = NoDoc
    /\ tc = IdleTc
    /\ di = IdleDi
    /\ hd = IdleHd
    /\ \E mode \in EncodeMode, ordering \in BOOLEAN,
          x \in -2..MaxDim, y \in -2..MaxDim,
          w \in 0..(2 * MaxDim + 1), h \in 0..(2 * MaxDim + 1) :
          cfg = [IdleCfg EXCEPT
                   !.config = [encodeOptions |->
                                 [DefaultOptions EXCEPT !.mode = mode,
                                                        !.centerX = x,
                                                        !.centerY = y],
                               centerFirstOrdering |-> ordering],
                   !.imageWidth = w, !.imageHeight = h]

NextOptions == ConfigGetEncodeOptions

SpecOptions == InitOptions /\ [][NextOptions]_vars

\* C24: GetEncodeOptions(w, h) returns the configured options with
\* centerX = floor(w/2) and centerY = floor(h/2) exactly when centre-first
\* ordering is enabled and both configured coordinates are negative; in every
\* other case both coordinates are returned unchanged; mode, effort, distance,
\* progressiveDC and progressiveAC never change, and the stored configuration
\* is not modified.
C24_DefaultCenterDerivation ==
    [][ConfigGetEncodeOptions =>
         LET stored == cfg.config.encodeOptions
             opts == cfg'.opts
             derived == /\ cfg.config.centerFirstOrdering
                        /\ stored.centerX < 0 /\ stored.centerY < 0
         IN  /\ cfg'.config = cfg.config
             /\ derived => /\ 2 * opts.centerX <= cfg.imageWidth
                           /\ cfg.imageWidth < 2 * opts.centerX + 2
                           /\ 2 * opts.centerY <= cfg.imageHeight
                           /\ cfg.imageHeight < 2 * opts.centerY + 2
             /\ ~derived => /\ opts.centerX = stored.centerX
                            /\ opts.centerY = stored.centerY
             /\ opts.mode = stored.mode
             /\ opts.effort = stored.effort
             /\ opts.distance = stored.distance
             /\ opts.progressiveDC = stored.progressiveDC
             /\ opts.progressiveAC = stored.progressiveAC]_vars

C24_Witness ==
    /\ entry = "GetEncodeOptions" /\ pc = "done" /\ cfg.returned
    /\ cfg.config.centerFirstOrdering
    /\ cfg.config.encodeOptions.centerX = -1
    /\ cfg.config.encodeOptions.centerY = -2
    /\ cfg.imageWidth = 3 /\ cfg.imageHeight = 5
    /\ cfg.opts.centerX = 1 /\ cfg.opts.centerY = 2

\* ------------------------------------------------------------ the copy loop
\* DecodeImageCallback at its copy loop: the image is decoded and created,
\* with a pitch of at least the row size, and the loop is at a row y below
\* the height.
InitCopyRows ==
    /\ entry = "CopyRows"
    /\ pc = "start"
    /\ exc = ""
    /\ par = IdlePar
    /\ enc = IdleEnc
    /\ dec = IdleDec
    /\ test = IdleTest
    /\ doc = NoDoc
    /\ tc = IdleTc
    /\ hd = IdleHd
    /\ cfg = IdleCfg
    /\ \E width \in {1, MaxDim, HugeDim}, height \in {1, MaxDim, HugeDim},
          format \in PixelFormat, pad \in {0, 1} :
         \E y \in {0, height \div 2, height - 1} :
            di = [IdleDi EXCEPT
                    !.jxlInfo = [width |-> width, height |-> height,
                                 bitsPerSample |-> BitsPerSample(format),
                                 numChannels |-> NumChannels(format),
                                 isGrayscale |-> IsGrayscale(format)],
                    !.format = format,
                    !.image = [NoImage EXCEPT
                                 !.created = TRUE,
                                 !.pixelFormat = OrthancPixelFormat(format, FALSE),
                                 !.width = width, !.height = height,
                                 !.pitch = width * BytesPerPixel(format) + pad],
                    !.y = y]

SpecCopyRows == InitCopyRows /\ [][DecodeImageCopyRow]_vars

\* C25: with the pitch at least the row size, every row y below the height is
\* copied to the bytes from y * pitch of the destination, out of the bytes
\* from y * rowSize of the decoded buffer: the two offsets the loop computes
\* are these products.
C25_RowsLandAtStride ==
    (entry = "CopyRows" /\ pc = "copied") =>
        /\ di.y < di.jxlInfo.height
        /\ di.image.pitch >= di.jxlInfo.width * BytesPerPixel(di.format)
        /\ di.dst.carry = 0
        /\ di.src.carry = 0

\* C26: in every successful Transcode the steps occur in the order parse,
\* read identifier, extract payload, codec run, substitute payload, overwrite
\* identifier, serialize, allocate and fill output, each of them once; the
\* identifier read is the one the input carried, the payload extracted is the
\* input's, the serialized document holds the substituted payload and the
\* overwritten identifier, and the identifier passed to Serialize is the one
\* just written to the meta header.  At every point of a call the steps done
\* so far are a prefix of that order.
C26_TranscodeStepOrdering ==
    LET order == <<"parse", "identifier", "extract", "codec", "payload",
                   "set-identifier", "serialize", "output">>
    IN  entry = "Transcode" =>
          /\ Len(tc.steps) <= Len(order)
          /\ tc.steps = SubSeq(order, 1, Len(tc.steps))
          /\ tc.ret = "Success" =>
               /\ tc.steps = order
               /\ tc.currentTs = tc.parsedDoc.ts
               /\ tc.dir = "TO-JXL" =>
                    /\ tc.pixels = tc.parsedDoc.pixel.bytes
                    /\ tc.jxlData = enc.out
                    /\ doc.ts = TS_JPEG_XL_LOSSLESS
               /\ tc.dir = "FROM-JXL" =>
                    /\ GetEncapsulatedData(tc.parsedDoc, UInt32(0, 0)).ok
                    /\ tc.jxlData = GetEncapsulatedData(tc.parsedDoc, UInt32(0, 0)).value
                    /\ tc.pixels = dec.out
                    /\ doc.ts = tc.uncompressedSyntax
               /\ doc.ts # tc.currentTs
               /\ tc.transcoded.doc = doc
               /\ tc.transcoded.doc.pixel # tc.parsedDoc.pixel
               /\ tc.transcoded.xfer = doc.ts

C26_Witness ==
    /\ entry = "Transcode" /\ pc = "done" /\ tc.ret = "Success"
    /\ tc.dir = "TO-JXL" /\ Len(tc.steps) = 8
    /\ tc.currentTs = TS_LITTLE_ENDIAN_IMPLICIT
    /\ tc.transcoded.xfer = TS_JPEG_XL_LOSSLESS

\* ------------------------------------------------------ requests side by side
\* DecodeImageCallback and TranscoderCallback called by several threads of
\* the host, each on its own input; the flag is as DCMTK or the host left it.
InitConcurrent ==
    LET docs == {DocOf(TS_JPEG_XL_LOSSLESS, ShapeOf(StreamGray8), 0,
                       EncapsulatedPixel(<<NoBytes, WholeFragment(StreamGray8)>>,
                                         TS_JPEG_XL_LOSSLESS)),
                 DocOf(TS_LITTLE_ENDIAN_EXPLICIT, <<1, 1, 8, 1>>, 0, NativePixel(Ramp(1)))}
        inputs == {Container("null", NoDoc), Container("nodataset", NoDoc)}
                  \cup {Container(k, d) : k \in {"ok", "warn"}, d \in docs}
        requests == [kind : {"DecodeImage", "Transcode"}, input : inputs,
                     at : {"start"}, parsed : {Throws(NoDoc, "")},
                     outcome : {RequestOutcome("", Throws(NoDoc, ""))}]
    IN  /\ entry = "Requests"
        /\ pc = "start"
        /\ exc = ""
        /\ enc = IdleEnc
        /\ dec = IdleDec
        /\ test = IdleTest
        /\ doc = NoDoc
        /\ tc = IdleTc
        /\ di = IdleDi
        /\ hd = IdleHd
        /\ cfg = IdleCfg
        /\ \E flag \in BOOLEAN, reqs \in [1..MaxParallel -> requests] :
              par = [IdlePar EXCEPT !.dcmIgnoreParsingErrors = flag, !.reqs = reqs]

NextConcurrent ==
    \E r \in 1..MaxParallel :
        \/ RequestConstruct(r)
        \/ RequestRead(r)
        \/ RequestFinish(r)

SpecConcurrent == InitConcurrent /\ [][NextConcurrent]_vars

C28_OffsetTableNeverReturned ==
    (entry = "DecodeImage" /\ di.extracted) =>
        LET frags == di.input.doc.pixel.frags
        IN  /\ di.frameIndex.hi = 0
            /\ di.frameIndex.lo + 2 <= Len(frags)
            /\ di.jxlData = frags[di.frameIndex.lo + 2]
            /\ ~(RunsSize(frags[1].runs) > 0 /\ di.jxlData = frags[1])

\* C29: in every native-to-codec Transcode, whatever the container declares
\* and holds, the encoder reads the pixel buffer only with width > 0,
\* height > 0 and a buffer of at least width * height * bytesPerPixel(format)
\* bytes; otherwise the transcode fails before the buffer is read.
C29_EncoderInputPrecondition ==
    (/\ entry = "Transcode" /\ tc.dir = "TO-JXL"
     /\ (enc.strm # NoStream \/ pc = "crashed")) =>
        /\ enc.width > 0
        /\ enc.height > 0
        /\ enc.pixels = tc.pixels
        /\ Len(enc.pixels) >= InputSize(enc.width, enc.height, enc.format)

\* C30: if SetJxlPixelData fails for any reason (empty input, failure to
\* store the fragment, failure to insert the element), the document's pixel
\* element is exactly what it was before the call, same representation and
\* bytes; a failed substitution never leaves the document without the pixel
\* element it had.
C30_SubstitutionAllOrNothing ==
    (/\ entry = "Handler" /\ ~hd.stored
     /\ exc \in {"Invalid JXL data", "Failed to store JXL data in fragment",
                 "Failed to insert pixel data into dataset"}) =>
        /\ doc.pixel = hd.before.pixel
        /\ doc = hd.before

====
